---- MODULE Spec2Model ----
(***************************************************************************)
(* Verification model of the AI music genre tagger CLI.                    *)
(*                                                                         *)
(*   Spec        the interactive menu of main.py together with the         *)
(*               Process Directory worker pool (main process, three        *)
(*               worker processes, the two queues, the suggestion cache).  *)
(*   SpecWorker  worker_process on its own, over arbitrary queue contents  *)
(*               and settings objects.                                     *)
(*   SpecLastfm  get_lastfm_tags as a function of its arguments and of     *)
(*               the two remote responses.                                 *)
(*   SpecUrl     LastFMClient._build_api_url as a function of its          *)
(*               arguments.                                                *)
(***************************************************************************)
EXTENDS Integers, Sequences, FiniteSets, TLC

(***************************************************************************)
(* Bounds of the model.                                                    *)
(***************************************************************************)
MaxFiles == 2
MaxRuns == 2
MaxQueue == 3
MaxTags == 2
MaxTopN == 2
MaxStrLen == 2

(***************************************************************************)
(* Program constants.                                                      *)
(***************************************************************************)
num_workers == 3
NoneVal == 0
NoCount == -1

VARIABLES
    \* InteractiveMenu (main.py)
    pc,                 \* position of the main process
    running,            \* the flag of InteractiveMenu.run
    current_menu,       \* the displayed level
    selected_index,
    \* settings objects and the environment file
    auto_apply_tags,
    default_music_dir,
    musicnn_settings,
    lastfm_settings,
    env,
    \* multiprocessing state of InteractiveMenu
    input_queue,
    output_queue,
    processes,
    wstate,             \* per worker: "none", "idle", "busy", "exited"
    wpath,              \* per worker: the path being processed
    worker_settings,    \* the settings copy handed to the workers
    \* _process_music_directory locals and the engine's cache
    music_files,
    processed_count,
    pd_i,               \* loop index of the enqueue loop
    ai_genre_suggestions_cache,
    \* history of the run
    run,                \* number of Process Directory invocations so far
    finalised,          \* process_music_file calls of the current invocation
    \* one call of get_lastfm_tags
    lf_pc,              \* "call" before the call, "done" after it
    lf_args,            \* api key of the environment, top_n, min_weight
    lf_track_response,  \* what the track.getTopTags request brought
    lf_artist_response, \* what the artist.getTopTags request brought
    lf_requests,        \* the requests issued, in order
    lf_result,          \* the returned list of (name, weight)
    lf_raised,          \* whether an exception reached the caller
    \* one call of LastFMClient._build_api_url
    url_pc,
    url_method,
    url_params,         \* the params mapping, in insertion order
    url_out,            \* the returned string, as a sequence of tokens
    \* one call of a function of musicnn_tagger/tagger.py
    mn_pc,
    mn_op,              \* the function called
    mn_args,            \* its arguments
    mn_out,             \* the returned map, as (key, value) pairs in order
    \* one call of a name helper of MusicTagger
    nm_pc,
    nm_op,              \* the method called
    nm_in,              \* the argument, as a sequence of characters
    nm_out,             \* the returned value
    \* the Local Model Settings and their store across processes
    st_pc,
    st_file,            \* the .env file
    st_environ,         \* os.environ of the running process
    st_settings,        \* the MusicnnSettings object at hand
    st_saved,           \* the object as it was at the last save_settings
    st_restarted,       \* whether a new process started since that save
    st_processes,       \* number of processes started so far
    \* one call of MusicTagger.set_genre_tag or process_music_file
    tg_pc,
    tg_op,              \* the method called
    tg_args,            \* its arguments and the cached suggestions
    tg_suggested,       \* the suggestion lists of process_music_file
    tg_genres,          \* the genres handed to set_genre_tag
    tg_events,          \* opens, prompts, calls and saves, in order
    tg_file,            \* the genre tag embedded in the file
    tg_result,          \* the returned value
    va_pc,    \* one Left or Right key on a VALUE item
    va_item,    \* the level and index of the item
    va_value,    \* the value of the setting before the key
    va_new,   \* the value the callback stored
    fm_pc,    \* the position in find_music_files
    fm_files,    \* the file names os.walk yields
    fm_i,    \* the file the loop is at
    fm_out    \* music_files

menuVars == <<pc, running, current_menu, selected_index>>
settingsVars == <<auto_apply_tags, default_music_dir, musicnn_settings, lastfm_settings, env>>
queueVars == <<input_queue, output_queue>>
workerVars == <<processes, wstate, wpath, worker_settings>>
runVars == <<music_files, processed_count, pd_i, ai_genre_suggestions_cache, run, finalised>>
lfVars == <<lf_pc, lf_args, lf_track_response, lf_artist_response, lf_requests, lf_result, lf_raised>>
urlVars == <<url_pc, url_method, url_params, url_out>>
mnVars == <<mn_pc, mn_op, mn_args, mn_out>>
nmVars == <<nm_pc, nm_op, nm_in, nm_out>>
stVars == <<st_pc, st_file, st_environ, st_settings, st_saved, st_restarted, st_processes>>
tgVars == <<tg_pc, tg_op, tg_args, tg_suggested, tg_genres, tg_events, tg_file, tg_result>>
vaVars == <<va_pc, va_item, va_value, va_new>>
fmVars == <<fm_pc, fm_files, fm_i, fm_out>>
pureVars == <<lfVars, urlVars, mnVars, nmVars, stVars, tgVars, vaVars, fmVars>>
vars == <<menuVars, settingsVars, queueVars, workerVars, runVars, pureVars>>

Workers == 1..num_workers
Paths == 1..MaxFiles

(***************************************************************************)
(* The menu tree built by _setup_root_menu.  A level is the list of items  *)
(* displayed together; parent is the text of the item's parent item.       *)
(***************************************************************************)
HeaderText == "-- Music Tagger Menu --"

Item(text, type, parent, children) ==
    [text |-> text, type |-> type, parent |-> parent, children |-> children]

root_menu ==
    << Item(HeaderText, "ACTION", "None", "None"),
       Item("Select Music Root Folder", "ACTION", "None", "None"),
       Item("Process Directory", "ACTION", "None", "None"),
       Item("Settings", "SUBMENU", "None", "settings"),
       Item("Exit", "ACTION", "None", "None") >>

settings_submenu ==
    << Item("Processing Engine", "SUBMENU", "Settings", "engine"),
       Item("Auto-apply Tags", "TOGGLE", "Settings", "None") >>

processing_engine_submenu ==
    << Item("Musicnn AI Tagger", "SUBMENU", "Settings", "musicnn"),
       Item("LastFM Grabber", "SUBMENU", "Settings", "lastfm") >>

musiccn_submenu ==
    << Item("Enable/Disable", "TOGGLE", "Processing Engine", "None"),
       Item("Models Count", "VALUE", "Processing Engine", "None"),
       Item("Threshold Weight", "VALUE", "Processing Engine", "None"),
       Item("Genres Count", "VALUE", "Processing Engine", "None") >>

lastfm_submenu ==
    << Item("Enable/Disable", "TOGGLE", "Processing Engine", "None"),
       Item("Threshold Weight", "VALUE", "Processing Engine", "None") >>

Levels == {"root", "settings", "engine", "musicnn", "lastfm"}

MenuItems(level) ==
    CASE level = "root" -> root_menu
      [] level = "settings" -> settings_submenu
      [] level = "engine" -> processing_engine_submenu
      [] level = "musicnn" -> musiccn_submenu
      [] level = "lastfm" -> lastfm_submenu

\* the level formed by the children of the item with the given text
ChildrenOf(text) ==
    CASE text = "Settings" -> "settings"
      [] text = "Processing Engine" -> "engine"
      [] text = "Musicnn AI Tagger" -> "musicnn"
      [] text = "LastFM Grabber" -> "lastfm"

\* Python's list index: 0-based position p of a level
ItemAt(level, p) == MenuItems(level)[p + 1]
MenuLen(level) == Len(MenuItems(level))

(***************************************************************************)
(* Settings objects and the environment file (.env).                       *)
(* Weights are kept in tenths: 5 stands for 0.5.                           *)
(***************************************************************************)
NoDir == "None"
InitThresholds == {0, 5, 10}
ModelNames == {"MSD_musicnn_big", "MTT_musicnn", "MTT_vgg", "MSD_musicnn", "MSD_vgg"}

\* str(bool).upper() and its reading back with .lower() == 'true'
BoolStr(b) == IF b THEN "TRUE" ELSE "FALSE"
StrBool(s) == s \in {"TRUE", "True", "true"}

\* the texts kept in the store: str(x) of a float (in tenths) and of an int,
\* json.dumps of a dict, and texts that are none of these
str_float(x) == [type |-> "float", num |-> x]
str_int(n) == [type |-> "int", num |-> n]
json_dumps(d) == [type |-> "json object", value |-> d]

\* dotenv.set_key: writes or replaces one key of the store
set_key(store, k, v) == [x \in DOMAIN store \cup {k} |-> IF x = k THEN v ELSE store[x]]

\* a save that writes the directory only when one is set
AppSettings_save_skips_absent(store, auto, dir) ==
    IF dir # NoDir
    THEN set_key(set_key(store, "AUTO_APPLY_TAGS", BoolStr(auto)), "DEFAULT_MUSIC_DIR", dir)
    ELSE set_key(store, "AUTO_APPLY_TAGS", BoolStr(auto))

\* AppSettings.save_settings
AppSettings_save(store, auto, dir) ==
    set_key(set_key(store, "AUTO_APPLY_TAGS", BoolStr(auto)),
            "DEFAULT_MUSIC_DIR", IF dir # NoDir THEN dir ELSE "")

\* MusicnnSettings.save_settings
MusicnnSettings_save(store, s) ==
    set_key(set_key(set_key(set_key(store,
        "MUSICNN_ENABLED", BoolStr(s.enabled)),
        "MUSICNN_THRESHOLD_WEIGHT", str_float(s.threshold_weight)),
        "MUSICNN_GENRES_COUNT", str_int(s.genres_count)),
        "MUSICNN_ENABLED_MODELS", json_dumps(s.enabled_models))

\* LastFMSettings.save_settings
LastFMSettings_save(store, s) ==
    set_key(set_key(store, "LASTFM_ENABLED", BoolStr(s.enabled)),
            "LASTFM_THRESHOLD_WEIGHT", str_float(s.threshold_weight))

\* MusicnnSettings as constructed by __post_init__: the dataclass has the
\* fields enabled, threshold_weight, genres_count, enabled_models and no
\* model_count attribute.
MusicnnSettings_init ==
    [enabled |-> TRUE, threshold_weight |-> 2, genres_count |-> 5,
     enabled_models |-> [m \in ModelNames |-> TRUE]]

\* setting an attribute of a settings object (creates it when missing)
SetAttr(obj, a, v) == [x \in DOMAIN obj \cup {a} |-> IF x = a THEN v ELSE obj[x]]
HasAttr(obj, a) == a \in DOMAIN obj

(***************************************************************************)
(* Queue payloads.  A result pair is (path, map); run and outcome record   *)
(* which invocation's worker pushed it and what the aggregator call did.   *)
(***************************************************************************)
EmptyMap == {}
AggregatorMaps == {{}, {"rock"}}
Outcomes == {[raised |-> TRUE, map |-> EmptyMap]} \cup
            {[raised |-> FALSE, map |-> m] : m \in AggregatorMaps}

Pair(path, map, r, outcome) == [path |-> path, map |-> map, run |-> r, outcome |-> outcome]

RECURSIVE Repeat(_, _)
Repeat(x, n) == IF n <= 0 THEN <<>> ELSE <<x>> \o Repeat(x, n - 1)

\* the drain loop of _process_music_directory: every pair of the output
\* queue is stored in the cache, later pairs overwriting earlier ones
RECURSIVE Drain(_, _)
Drain(cache, q) ==
    IF q = <<>> THEN cache
    ELSE Drain([p \in DOMAIN cache \cup {Head(q).path} |->
                    IF p = Head(q).path THEN [map |-> Head(q).map, run |-> Head(q).run]
                    ELSE cache[p]],
               Tail(q))

\* the variables of the two function-level specifications, at rest
LfIdle ==
    /\ lf_pc = "idle"
    /\ lf_args = <<>>
    /\ lf_track_response = <<>>
    /\ lf_artist_response = <<>>
    /\ lf_requests = <<>>
    /\ lf_result = <<>>
    /\ lf_raised = FALSE

UrlIdle ==
    /\ url_pc = "idle"
    /\ url_method = ""
    /\ url_params = <<>>
    /\ url_out = <<>>

MnIdle ==
    /\ mn_pc = "idle"
    /\ mn_op = ""
    /\ mn_args = <<>>
    /\ mn_out = <<>>

NmIdle ==
    /\ nm_pc = "idle"
    /\ nm_op = ""
    /\ nm_in = <<>>
    /\ nm_out = <<>>

StIdle ==
    /\ st_pc = "idle"
    /\ st_file = <<>>
    /\ st_environ = <<>>
    /\ st_settings = <<>>
    /\ st_saved = <<>>
    /\ st_restarted = FALSE
    /\ st_processes = 0

TgIdle ==
    /\ tg_pc = "idle"
    /\ tg_op = ""
    /\ tg_args = <<>>
    /\ tg_suggested = <<>>
    /\ tg_genres = <<>>
    /\ tg_events = <<>>
    /\ tg_file = <<>>
    /\ tg_result = FALSE

VaIdle ==
    /\ va_pc = "idle"
    /\ va_item = <<>>
    /\ va_value = 0
    /\ va_new = 0

FmIdle ==
    /\ fm_pc = "idle"
    /\ fm_files = <<>>
    /\ fm_i = 0
    /\ fm_out = <<>>

\* the function-level specifications other than s, at rest and left alone
FunctionsIdleBut(s) ==
    /\ IF s = "lastfm" THEN TRUE ELSE LfIdle
    /\ IF s = "url" THEN TRUE ELSE UrlIdle
    /\ IF s = "genres" THEN TRUE ELSE MnIdle
    /\ IF s = "names" THEN TRUE ELSE NmIdle
    /\ IF s = "settings" THEN TRUE ELSE StIdle
    /\ IF s = "tagging" THEN TRUE ELSE TgIdle
    /\ IF s = "find" THEN TRUE ELSE FmIdle
    /\ IF s = "adjust" THEN TRUE ELSE VaIdle

FunctionsUnchangedBut(s) ==
    /\ IF s = "lastfm" THEN TRUE ELSE UNCHANGED lfVars
    /\ IF s = "url" THEN TRUE ELSE UNCHANGED urlVars
    /\ IF s = "genres" THEN TRUE ELSE UNCHANGED mnVars
    /\ IF s = "names" THEN TRUE ELSE UNCHANGED nmVars
    /\ IF s = "settings" THEN TRUE ELSE UNCHANGED stVars
    /\ IF s = "tagging" THEN TRUE ELSE UNCHANGED tgVars
    /\ IF s = "find" THEN TRUE ELSE UNCHANGED fmVars
    /\ IF s = "adjust" THEN TRUE ELSE UNCHANGED vaVars

PureIdle == FunctionsIdleBut("none")

(***************************************************************************)
(* Initial state: the objects as constructed by MusicTaggerMenu.__init__.  *)
(***************************************************************************)
Init ==
    /\ pc = "draw"
    /\ running = TRUE
    /\ current_menu = "root"
    /\ selected_index = 1
    /\ auto_apply_tags \in BOOLEAN
    /\ default_music_dir \in {NoDir, "dir"}
    /\ musicnn_settings = MusicnnSettings_init
    /\ lastfm_settings \in [enabled : BOOLEAN, threshold_weight : InitThresholds]
    /\ env = MusicnnSettings_save(
                LastFMSettings_save(
                    AppSettings_save(<<>>, auto_apply_tags, default_music_dir),
                    lastfm_settings),
                musicnn_settings)
    /\ input_queue = <<>>
    /\ output_queue = <<>>
    /\ processes = <<>>
    /\ wstate = [w \in Workers |-> "none"]
    /\ wpath = [w \in Workers |-> NoneVal]
    /\ worker_settings = musicnn_settings
    /\ music_files = <<>>
    /\ processed_count = 0
    /\ pd_i = 0
    /\ ai_genre_suggestions_cache = <<>>
    /\ run = 0
    /\ finalised = <<>>
    /\ PureIdle

(***************************************************************************)
(* worker_process (music_tagger.py)                                        *)
(***************************************************************************)
\* a get that leaves the path on the queue
worker_get_peek(w) ==
    /\ wstate[w] = "idle"
    /\ input_queue # <<>>
    /\ input_queue' = IF Head(input_queue) = NoneVal THEN Tail(input_queue) ELSE input_queue
    /\ IF Head(input_queue) = NoneVal
       THEN /\ wstate' = [wstate EXCEPT ![w] = "exited"]
            /\ wpath' = wpath
       ELSE /\ wstate' = [wstate EXCEPT ![w] = "busy"]
            /\ wpath' = [wpath EXCEPT ![w] = Head(input_queue)]
    /\ UNCHANGED <<output_queue, processes, worker_settings>>
    /\ UNCHANGED <<menuVars, settingsVars, runVars>>
    /\ UNCHANGED pureVars

\* input_queue.get(): a sentinel ends the loop, a path starts the processing
worker_get(w) ==
    /\ wstate[w] = "idle"
    /\ input_queue # <<>>
    /\ input_queue' = Tail(input_queue)
    /\ IF Head(input_queue) = NoneVal
       THEN /\ wstate' = [wstate EXCEPT ![w] = "exited"]
            /\ wpath' = wpath
       ELSE /\ wstate' = [wstate EXCEPT ![w] = "busy"]
            /\ wpath' = [wpath EXCEPT ![w] = Head(input_queue)]
    /\ UNCHANGED <<output_queue, processes, worker_settings>>
    /\ UNCHANGED <<menuVars, settingsVars, runVars>>
    /\ UNCHANGED pureVars

\* what the try block does: reading musicnn_settings.model_count raises
\* AttributeError when the attribute is missing, otherwise get_musicnn_tags
\* returns a map or raises
TryOutcomes(s) ==
    IF HasAttr(s, "model_count") THEN Outcomes
    ELSE {[raised |-> TRUE, map |-> EmptyMap]}

\* the pair pushed for a path: the map on return, {} from the except branch
worker_result(path, o, r) ==
    Pair(path, IF o.raised THEN EmptyMap ELSE o.map, r, o)

\* a worker whose except branch puts a second pair after the put of line 74
worker_pushes_twice(path, o, r) ==
    <<worker_result(path, o, r), Pair(path, EmptyMap, r, o)>>

\* a worker whose except branch puts nothing
worker_pushes_silent(path, o, r) ==
    IF o.raised THEN <<>> ELSE <<worker_result(path, o, r)>>

\* the puts of one loop iteration: one pair (line 74 or line 80)
worker_pushes(path, o, r) == <<worker_result(path, o, r)>>

worker_put(w) ==
    /\ wstate[w] = "busy"
    /\ \E o \in TryOutcomes(worker_settings) :
          output_queue' = output_queue \o worker_pushes(wpath[w], o, run)
    /\ wstate' = [wstate EXCEPT ![w] = "idle"]
    /\ wpath' = [wpath EXCEPT ![w] = NoneVal]
    /\ UNCHANGED <<input_queue, processes, worker_settings>>
    /\ UNCHANGED <<menuVars, settingsVars, runVars>>
    /\ UNCHANGED pureVars

(***************************************************************************)
(* InteractiveMenu._process_music_directory and the worker pool            *)
(***************************************************************************)
\* the item under the highlight; indexing past the end raises IndexError
Selected ==
    IF selected_index < MenuLen(current_menu)
    THEN ItemAt(current_menu, selected_index)
    ELSE Item("IndexError", "IndexError", "None", "None")

AtInput == pc = "input" /\ running

\* _start_workers
start_workers_states == [w \in Workers |-> "idle"]

\* lines 485-515 and 521: resolve the directory, discover the files, start
\* the workers.  picked is the outcome of _select_folder when no directory
\* is set, isdir the answer of os.path.isdir, n the number of files found.
process_music_directory_begin ==
    /\ AtInput
    /\ Selected.text = "Process Directory"
    /\ run < MaxRuns
    /\ \E picked \in {NoDir, "dir"}, isdir \in BOOLEAN, n \in 0..MaxFiles :
         LET dir1 == IF default_music_dir = NoDir THEN picked ELSE default_music_dir
             env1 == IF default_music_dir = NoDir /\ picked # NoDir
                     THEN AppSettings_save(env, auto_apply_tags, picked)
                     ELSE env
         IN  IF dir1 = NoDir
             THEN \* selection cancelled: back to the menu
                  /\ pc' = "draw"
                  /\ UNCHANGED <<settingsVars, workerVars, runVars>>
             ELSE IF ~isdir
             THEN \* invalid directory: reset and save
                  /\ default_music_dir' = NoDir
                  /\ env' = AppSettings_save(env1, auto_apply_tags, NoDir)
                  /\ pc' = "draw"
                  /\ UNCHANGED <<auto_apply_tags, musicnn_settings, lastfm_settings>>
                  /\ UNCHANGED <<workerVars, runVars>>
             ELSE /\ default_music_dir' = dir1
                  /\ env' = env1
                  /\ music_files' = [i \in 1..n |-> i]
                  /\ processes' = [i \in 1..num_workers |-> i]
                  /\ wstate' = start_workers_states
                  /\ wpath' = [w \in Workers |-> NoneVal]
                  /\ worker_settings' = musicnn_settings
                  /\ run' = run + 1
                  /\ finalised' = <<>>
                  /\ processed_count' = 0
                  /\ pd_i' = 1
                  /\ pc' = IF n = 0 THEN "poll" ELSE "enqueue"
                  /\ UNCHANGED <<auto_apply_tags, musicnn_settings, lastfm_settings>>
                  /\ UNCHANGED ai_genre_suggestions_cache
    /\ UNCHANGED <<running, current_menu, selected_index, queueVars>>
    /\ UNCHANGED pureVars

\* lines 518-519: one put of the enqueue loop
process_music_directory_enqueue ==
    /\ pc = "enqueue"
    /\ pd_i <= Len(music_files)
    /\ input_queue' = Append(input_queue, music_files[pd_i])
    /\ pd_i' = pd_i + 1
    /\ pc' = IF pd_i = Len(music_files) THEN "poll" ELSE "enqueue"
    /\ UNCHANGED <<running, current_menu, selected_index, output_queue>>
    /\ UNCHANGED <<settingsVars, workerVars>>
    /\ UNCHANGED <<music_files, processed_count, ai_genre_suggestions_cache, run, finalised>>
    /\ UNCHANGED pureVars

\* a polling loop that finalises whichever discovered file is cached
NextToFinalise_any(files, count, cache) ==
    IF \E i \in 1..Len(files) : files[i] \in DOMAIN cache
    THEN files[CHOOSE i \in 1..Len(files) :
                 /\ files[i] \in DOMAIN cache
                 /\ \A j \in 1..Len(files) : files[j] \in DOMAIN cache => i >= j]
    ELSE files[count + 1]

\* the file the polling loop finalises next, given the drained cache
NextToFinalise(files, count, cache) == files[count + 1]

\* lines 522-540: one iteration of the polling loop: drain the output queue
\* into the cache, then finalise the current file if its result is cached,
\* otherwise sleep
process_music_directory_poll ==
    /\ pc = "poll"
    /\ processed_count < Len(music_files)
    /\ LET cache1 == Drain(ai_genre_suggestions_cache, output_queue)
           current_file == NextToFinalise(music_files, processed_count, cache1)
       IN  /\ ai_genre_suggestions_cache' = cache1
           /\ output_queue' = <<>>
           /\ IF current_file \in DOMAIN cache1
              THEN /\ finalised' = Append(finalised,
                          [path |-> current_file, map |-> cache1[current_file].map,
                           run |-> cache1[current_file].run])
                   /\ processed_count' = processed_count + 1
              ELSE UNCHANGED <<finalised, processed_count>>
    /\ UNCHANGED <<menuVars, settingsVars, workerVars, input_queue>>
    /\ UNCHANGED <<music_files, pd_i, run>>
    /\ UNCHANGED pureVars

\* a stop that signals one worker too few
SentinelCount_short(procs) == Len(procs) - 1

\* the number of sentinels the first loop of _stop_workers puts
SentinelCount(procs) == Len(procs)

\* _stop_workers, first loop: one sentinel per process handle
stop_workers_signal ==
    /\ pc = "poll"
    /\ processed_count >= Len(music_files)
    /\ input_queue' = input_queue \o Repeat(NoneVal, SentinelCount(processes))
    /\ pc' = "join"
    /\ UNCHANGED <<running, current_menu, selected_index, output_queue>>
    /\ UNCHANGED <<settingsVars, workerVars, runVars>>
    /\ UNCHANGED pureVars

\* _stop_workers, second loop: join every process, then clear the list
stop_workers_join ==
    /\ pc = "join"
    /\ \A i \in 1..Len(processes) : wstate[processes[i]] = "exited"
    /\ processes' = <<>>
    /\ pc' = "ack"
    /\ UNCHANGED <<running, current_menu, selected_index>>
    /\ UNCHANGED <<settingsVars, queueVars, runVars, wstate, wpath, worker_settings>>
    /\ UNCHANGED pureVars

\* lines 545-550: acknowledgement, reset of the highlight, back to the menu
process_music_directory_return ==
    /\ pc = "ack"
    /\ selected_index' = 0
    /\ pc' = "draw"
    /\ UNCHANGED <<running, current_menu>>
    /\ UNCHANGED <<settingsVars, queueVars, workerVars, runVars>>
    /\ UNCHANGED pureVars

(***************************************************************************)
(* InteractiveMenu: rendering and key handling                             *)
(***************************************************************************)
\* item.value() of a TOGGLE or VALUE item raises AttributeError when the
\* settings object lacks the attribute it reads
ValueRaises(level, item) ==
    /\ level = "musicnn"
    /\ item.text = "Models Count"
    /\ ~HasAttr(musicnn_settings, "model_count")

\* _draw_menu: reads the value of every TOGGLE and VALUE item of the level;
\* an exception leaves run() through the loop
draw_menu_ok(level) ==
    \A p \in 0..(MenuLen(level) - 1) : ~ValueRaises(level, ItemAt(level, p))

draw_menu ==
    /\ pc = "draw"
    /\ running
    /\ pc' = IF draw_menu_ok(current_menu) THEN "input" ELSE "crashed"
    /\ UNCHANGED <<running, current_menu, selected_index>>
    /\ UNCHANGED <<settingsVars, queueVars, workerVars, runVars>>
    /\ UNCHANGED pureVars

\* a step of the highlight that does not skip the header placeholder
StepIndex_no_skip(level, idx, d) == (idx + d) % MenuLen(level)

\* a step of the highlight that does not wrap around
StepIndex_no_wrap(level, idx, d) == idx + d

\* one step of the highlight with the skip over the header placeholder
StepIndex(level, idx, d) ==
    LET n == MenuLen(level)
        i1 == (idx + d) % n
    IN  IF i1 < n /\ ItemAt(level, i1).text = HeaderText
        THEN LET i2 == (i1 + d) % n
             IN  IF i2 = idx THEN 1 ELSE i2
        ELSE i1

handle_input_up ==
    /\ AtInput
    /\ selected_index' = StepIndex(current_menu, selected_index, -1)
    /\ pc' = "draw"
    /\ UNCHANGED <<running, current_menu>>
    /\ UNCHANGED <<settingsVars, queueVars, workerVars, runVars>>
    /\ UNCHANGED pureVars

handle_input_down ==
    /\ AtInput
    /\ selected_index' = StepIndex(current_menu, selected_index, 1)
    /\ pc' = "draw"
    /\ UNCHANGED <<running, current_menu>>
    /\ UNCHANGED <<settingsVars, queueVars, workerVars, runVars>>
    /\ UNCHANGED pureVars

\* _handle_selection on a SUBMENU item
handle_selection_submenu ==
    /\ AtInput
    /\ Selected.type = "SUBMENU"
    /\ current_menu' = Selected.children
    /\ selected_index' = 0
    /\ pc' = "draw"
    /\ UNCHANGED running
    /\ UNCHANGED <<settingsVars, queueVars, workerVars, runVars>>
    /\ UNCHANGED pureVars

\* _handle_selection on the header placeholder (an ACTION without callback);
\* an index past the end of the level raises IndexError
handle_selection_header ==
    /\ AtInput
    /\ Selected.text \in {HeaderText, "IndexError"}
    /\ pc' = IF Selected.type = "IndexError" THEN "crashed" ELSE "draw"
    /\ UNCHANGED <<running, current_menu, selected_index>>
    /\ UNCHANGED <<settingsVars, queueVars, workerVars, runVars>>
    /\ UNCHANGED pureVars

\* the callbacks _toggle_auto_apply, _toggle_musiccn_enabled and
\* _toggle_lastfm_enabled, each followed by the save of its settings domain
handle_selection_toggle ==
    /\ AtInput
    /\ Selected.type = "TOGGLE"
    /\ IF Selected.text = "Auto-apply Tags"
       THEN /\ auto_apply_tags' = ~auto_apply_tags
            /\ env' = AppSettings_save(env, ~auto_apply_tags, default_music_dir)
            /\ UNCHANGED <<musicnn_settings, lastfm_settings>>
       ELSE IF current_menu = "musicnn"
       THEN /\ musicnn_settings' = [musicnn_settings EXCEPT !.enabled = ~@]
            /\ env' = MusicnnSettings_save(env, musicnn_settings')
            /\ UNCHANGED <<auto_apply_tags, lastfm_settings>>
       ELSE /\ lastfm_settings' = [lastfm_settings EXCEPT !.enabled = ~@]
            /\ env' = LastFMSettings_save(env, lastfm_settings')
            /\ UNCHANGED <<auto_apply_tags, musicnn_settings>>
    /\ pc' = "draw"
    /\ UNCHANGED <<running, current_menu, selected_index, default_music_dir>>
    /\ UNCHANGED <<queueVars, workerVars, runVars>>
    /\ UNCHANGED pureVars

\* _select_folder: a valid directory is stored and saved, a cancelled or
\* invalid selection changes nothing
select_folder ==
    /\ AtInput
    /\ Selected.text = "Select Music Root Folder"
    /\ \E picked \in {NoDir, "dir"}, isdir \in BOOLEAN :
         IF picked # NoDir /\ isdir
         THEN /\ default_music_dir' = picked
              /\ env' = AppSettings_save(env, auto_apply_tags, picked)
         ELSE UNCHANGED <<default_music_dir, env>>
    /\ pc' = "draw"
    /\ UNCHANGED <<running, current_menu, selected_index>>
    /\ UNCHANGED <<auto_apply_tags, musicnn_settings, lastfm_settings>>
    /\ UNCHANGED <<queueVars, workerVars, runVars>>
    /\ UNCHANGED pureVars

\* _exit_program: _stop_workers, then the stop signal
exit_program ==
    /\ AtInput
    /\ Selected.text = "Exit"
    /\ \A i \in 1..Len(processes) : wstate[processes[i]] = "exited"
    /\ input_queue' = input_queue \o Repeat(NoneVal, SentinelCount(processes))
    /\ processes' = <<>>
    /\ running' = FALSE
    /\ pc' = "exited"
    /\ UNCHANGED <<current_menu, selected_index, output_queue>>
    /\ UNCHANGED <<wstate, wpath, worker_settings>>
    /\ UNCHANGED <<settingsVars, runVars>>
    /\ UNCHANGED pureVars

\* _handle_escape
handle_escape ==
    /\ AtInput
    /\ IF current_menu # "root"
       THEN current_menu' = "root" /\ selected_index' = 1
       ELSE UNCHANGED <<current_menu, selected_index>>
    /\ pc' = "draw"
    /\ UNCHANGED running
    /\ UNCHANGED <<settingsVars, queueVars, workerVars, runVars>>
    /\ UNCHANGED pureVars

\* a _handle_back without the special case of lines 378-382
BackTarget_no_special(level, idx) ==
    IF level = "root" THEN <<level, idx>>
    ELSE LET first == ItemAt(level, 0)
         IN  IF first.parent = "None" THEN <<level, idx>>
             ELSE <<ChildrenOf(first.parent), idx>>

\* the level _handle_back switches to, and the highlight it leaves
BackTarget(level, idx) ==
    IF level = "root" THEN <<level, idx>>
    ELSE LET first == ItemAt(level, 0)
         IN  IF first.parent = "None" THEN <<level, idx>>
             ELSE IF first.parent = "Settings" /\ first.text = "Processing Engine"
             THEN <<"root", 1>>
             ELSE <<ChildrenOf(first.parent), idx>>

handle_back ==
    /\ AtInput
    /\ current_menu' = BackTarget(current_menu, selected_index)[1]
    /\ selected_index' = BackTarget(current_menu, selected_index)[2]
    /\ pc' = "draw"
    /\ UNCHANGED running
    /\ UNCHANGED <<settingsVars, queueVars, workerVars, runVars>>
    /\ UNCHANGED pureVars

(***************************************************************************)
(* VALUE items: bounds in the unit of the setting (tenths for weights)     *)
(***************************************************************************)
ValueAttr(level, item) ==
    CASE item.text = "Models Count" -> "model_count"
      [] item.text = "Genres Count" -> "genres_count"
      [] OTHER -> "threshold_weight"

min_value(item) == IF item.text = "Threshold Weight" THEN 0 ELSE 1
max_value(item) ==
    CASE item.text = "Models Count" -> 5
      [] item.text = "Genres Count" -> 10
      [] OTHER -> 10

Min(a, b) == IF a < b THEN a ELSE b
Max(a, b) == IF a > b THEN a ELSE b

\* lines 400-410: new_value of the increase handler
IncreasedValue(item, cur, shift) ==
    Min(cur + (IF shift THEN 10 ELSE 1), max_value(item))

\* lines 433-447: new_value of the decrease handler
DecreasedValue(item, cur, shift) ==
    Min(Max(Max(0, cur - (IF shift THEN 10 ELSE 1)), min_value(item)), max_value(item))

\* a callback that is not followed by a save
value_change_unsaved(new) ==
    IF current_menu = "musicnn"
    THEN /\ musicnn_settings' = SetAttr(musicnn_settings, ValueAttr(current_menu, Selected), new)
         /\ UNCHANGED <<lastfm_settings, env>>
    ELSE /\ lastfm_settings' = [lastfm_settings EXCEPT !.threshold_weight = new]
         /\ UNCHANGED <<musicnn_settings, env>>

\* the callback of a VALUE item and the save that follows it
value_change(new) ==
    IF current_menu = "musicnn"
    THEN /\ musicnn_settings' = SetAttr(musicnn_settings, ValueAttr(current_menu, Selected), new)
         /\ env' = MusicnnSettings_save(env, musicnn_settings')
         /\ UNCHANGED lastfm_settings
    ELSE /\ lastfm_settings' = [lastfm_settings EXCEPT !.threshold_weight = new]
         /\ env' = LastFMSettings_save(env, lastfm_settings')
         /\ UNCHANGED musicnn_settings

CurrentValue ==
    IF current_menu = "musicnn"
    THEN musicnn_settings[ValueAttr(current_menu, Selected)]
    ELSE lastfm_settings.threshold_weight

handle_value_change_increase ==
    /\ AtInput
    /\ IF Selected.type = "IndexError" \/ (Selected.type = "VALUE" /\ ValueRaises(current_menu, Selected))
       THEN pc' = "crashed" /\ UNCHANGED <<musicnn_settings, lastfm_settings, env>>
       ELSE /\ pc' = "draw"
            /\ IF Selected.type = "VALUE"
               THEN \E shift \in BOOLEAN :
                        value_change(IncreasedValue(Selected, CurrentValue, shift))
               ELSE UNCHANGED <<musicnn_settings, lastfm_settings, env>>
    /\ UNCHANGED <<running, current_menu, selected_index>>
    /\ UNCHANGED <<auto_apply_tags, default_music_dir>>
    /\ UNCHANGED <<queueVars, workerVars, runVars>>
    /\ UNCHANGED pureVars

handle_value_change_decrease ==
    /\ AtInput
    /\ IF Selected.type = "IndexError" \/ (Selected.type = "VALUE" /\ ValueRaises(current_menu, Selected))
       THEN pc' = "crashed" /\ UNCHANGED <<musicnn_settings, lastfm_settings, env>>
       ELSE /\ pc' = "draw"
            /\ IF Selected.type = "VALUE"
               THEN \E shift \in BOOLEAN :
                        value_change(DecreasedValue(Selected, CurrentValue, shift))
               ELSE UNCHANGED <<musicnn_settings, lastfm_settings, env>>
    /\ UNCHANGED <<running, current_menu, selected_index>>
    /\ UNCHANGED <<auto_apply_tags, default_music_dir>>
    /\ UNCHANGED <<queueVars, workerVars, runVars>>
    /\ UNCHANGED pureVars

(***************************************************************************)
(* The program: menu and worker pool                                       *)
(***************************************************************************)
Next ==
    \/ draw_menu
    \/ handle_input_up
    \/ handle_input_down
    \/ handle_selection_submenu
    \/ handle_selection_header
    \/ handle_selection_toggle
    \/ select_folder
    \/ exit_program
    \/ handle_escape
    \/ handle_back
    \/ handle_value_change_increase
    \/ handle_value_change_decrease
    \/ process_music_directory_begin
    \/ process_music_directory_enqueue
    \/ process_music_directory_poll
    \/ stop_workers_signal
    \/ stop_workers_join
    \/ process_music_directory_return
    \/ \E w \in Workers : worker_get(w)
    \/ \E w \in Workers : worker_put(w)

Spec == Init /\ [][Next]_vars

\* Scheduling of a Process Directory run: every worker process keeps
\* running, the main process keeps polling, every inference call ends and
\* the operator acknowledges the completion message.
FairSpec ==
    /\ Spec
    /\ WF_vars(process_music_directory_enqueue)
    /\ WF_vars(process_music_directory_poll)
    /\ WF_vars(stop_workers_signal)
    /\ WF_vars(stop_workers_join)
    /\ WF_vars(process_music_directory_return)
    /\ \A w \in Workers : WF_vars(worker_get(w)) /\ WF_vars(worker_put(w))

(***************************************************************************)
(* worker_process on its own: three workers over an arbitrary input queue  *)
(* of paths and sentinels, with a settings object that has or lacks the    *)
(* model_count attribute.                                                  *)
(***************************************************************************)
RECURSIVE SeqsUpTo(_, _)
SeqsUpTo(S, n) ==
    IF n = 0 THEN {<<>>}
    ELSE LET shorter == SeqsUpTo(S, n - 1)
         IN  shorter \cup {Append(q, x) : q \in shorter, x \in S}

InitWorker ==
    /\ pc = "workers"
    /\ running = FALSE
    /\ current_menu = "root"
    /\ selected_index = 1
    /\ auto_apply_tags = FALSE
    /\ default_music_dir = NoDir
    /\ musicnn_settings = MusicnnSettings_init
    /\ lastfm_settings = [enabled |-> TRUE, threshold_weight |-> 5]
    /\ env = <<>>
    /\ input_queue \in SeqsUpTo(Paths \cup {NoneVal}, MaxQueue)
    /\ output_queue = <<>>
    /\ processes = [i \in 1..num_workers |-> i]
    /\ wstate = start_workers_states
    /\ wpath = [w \in Workers |-> NoneVal]
    /\ worker_settings \in {MusicnnSettings_init, SetAttr(MusicnnSettings_init, "model_count", 1)}
    /\ music_files = <<>>
    /\ processed_count = 0
    /\ pd_i = 0
    /\ ai_genre_suggestions_cache = <<>>
    /\ run = 1
    /\ finalised = <<>>
    /\ PureIdle

NextWorker ==
    \/ \E w \in Workers : worker_get(w)
    \/ \E w \in Workers : worker_put(w)

SpecWorker == InitWorker /\ [][NextWorker]_vars

(***************************************************************************)
(* Properties of the worker pool                                           *)
(***************************************************************************)
\* C1: in one Process Directory run process_music_file is called once per
\* discovered file and in discovery order: the calls made so far are a
\* prefix of music_files, and the whole list once the polling loop is left.
C1_FinalisedInDiscoveryOrder ==
    /\ Len(finalised) <= Len(music_files)
    /\ \A i \in 1..Len(finalised) : finalised[i].path = music_files[i]
    /\ (run > 0 /\ pc \notin {"enqueue", "poll"}) => Len(finalised) = Len(music_files)

\* the result of the second file arrived before that of the first, and the
\* polling loop has cached it without finalising anything
C1_Witness ==
    /\ pc = "poll"
    /\ Len(music_files) = 2
    /\ finalised = <<>>
    /\ 2 \in DOMAIN ai_genre_suggestions_cache
    /\ 1 \notin DOMAIN ai_genre_suggestions_cache

\* C2: a worker that holds a path leaves it only by putting exactly one pair
\* for that path on the output queue (the aggregator's map when the call
\* returned, {} when it raised), and takes nothing from the input queue
\* before that; nothing else is ever put on the output queue.
C2_OnePairPerPath ==
    [][ /\ \A w \in Workers :
            wstate[w] = "busy" =>
              \/ wstate'[w] = "busy" /\ wpath'[w] = wpath[w]
              \/ /\ wstate'[w] = "idle"
                 /\ Len(output_queue') = Len(output_queue) + 1
                 /\ SubSeq(output_queue', 1, Len(output_queue)) = output_queue
                 /\ LET pair == output_queue'[Len(output_queue')]
                    IN  /\ pair.path = wpath[w]
                        /\ pair.map = IF pair.outcome.raised THEN EmptyMap
                                      ELSE pair.outcome.map
        /\ output_queue' # output_queue =>
              \E w \in Workers : wstate[w] = "busy" /\ wstate'[w] = "idle"
      ]_vars

\* both kinds of pair have been pushed: one after a raise, one after a return
C2_Witness ==
    /\ \E i \in 1..Len(output_queue) :
          output_queue[i].outcome.raised /\ output_queue[i].map = EmptyMap
    /\ \E j \in 1..Len(output_queue) :
          ~output_queue[j].outcome.raised /\ output_queue[j].map = {"rock"}

\* C3: under fair scheduling a started Process Directory run finalises all
\* its files, stops the pool and returns to the menu.
RunReturned ==
    /\ pc = "draw"
    /\ processes = <<>>
    /\ Len(finalised) = Len(music_files)
    /\ \A w \in Workers : wstate[w] = "exited"

C3_RunTerminates == (pc \in {"enqueue", "poll"}) ~> RunReturned

\* a run over two files has returned to the menu
C3_Witness == RunReturned /\ Len(music_files) = 2 /\ selected_index = 0

\* the number of sentinels on the input queue
RECURSIVE CountSentinels(_)
CountSentinels(q) ==
    IF q = <<>> THEN 0
    ELSE (IF Head(q) = NoneVal THEN 1 ELSE 0) + CountSentinels(Tail(q))

\* C4: Stop workers puts one sentinel per started worker and every worker
\* consumes exactly one: while Stop workers waits, the sentinels still queued
\* plus the workers that have exited are as many as the started workers;
\* when it returns no worker is alive, the process list is empty and no
\* sentinel is left.
C4_OneSentinelPerWorker ==
    /\ pc = "join" =>
          /\ Len(processes) = num_workers
          /\ CountSentinels(input_queue)
               + Cardinality({w \in Workers : wstate[w] = "exited"}) = Len(processes)
    /\ pc = "ack" =>
          /\ processes = <<>>
          /\ \A w \in Workers : wstate[w] = "exited"
          /\ CountSentinels(input_queue) = 0

\* Stop workers has returned in the second run of the session
C4_Witness == pc = "ack" /\ run = 2 /\ Len(music_files) = 2

\* C5: every file is finalised with a cached result that a worker pushed
\* during the same Process Directory invocation.
C5_CacheScopedToInvocation ==
    \A i \in 1..Len(finalised) : finalised[i].run = run

\* C6: the run loop ends only through the Exit action: it is never left by
\* an exception of a handler or of the rendering.
C6_LoopEndsOnlyByExit ==
    pc \in {"exited", "crashed"} => (pc = "exited" /\ ~running)

(***************************************************************************)
(* The menu and the pool at rest, for the function-level specifications    *)
(***************************************************************************)
ProgramIdle ==
    /\ pc = "idle"
    /\ running = FALSE
    /\ current_menu = "root"
    /\ selected_index = 1
    /\ auto_apply_tags = FALSE
    /\ default_music_dir = NoDir
    /\ musicnn_settings = MusicnnSettings_init
    /\ lastfm_settings = [enabled |-> TRUE, threshold_weight |-> 5]
    /\ env = <<>>
    /\ input_queue = <<>>
    /\ output_queue = <<>>
    /\ processes = <<>>
    /\ wstate = [w \in Workers |-> "none"]
    /\ wpath = [w \in Workers |-> NoneVal]
    /\ worker_settings = MusicnnSettings_init
    /\ music_files = <<>>
    /\ processed_count = 0
    /\ pd_i = 0
    /\ ai_genre_suggestions_cache = <<>>
    /\ run = 0
    /\ finalised = <<>>

programVars == <<menuVars, settingsVars, queueVars, workerVars, runVars>>

(***************************************************************************)
(* lastfm_tagger: get_lastfm_tags                                          *)
(***************************************************************************)
TagNames == {"rock", "pop"}
TagCounts == {NoCount, 0, 50, 80}
MinWeights == {1, 60}
NoKey == "<unset>"
ApiKeys == {NoKey, "", "key"}

\* TagModel: name and optional count (NoCount stands for None)
TagModels == [name : TagNames, count : TagCounts]
TagLists == SeqsUpTo(TagModels, MaxTags)

\* the ways a request fails: requests.get or raise_for_status raises an
\* HTTPError, a ConnectionError, a Timeout or another RequestException, or
\* response.json() raises a ValueError
TransportFailures == {"HTTPError", "ConnectionError", "Timeout", "RequestException", "ValueError"}

\* what a request can bring: a transport failure, a body that does not fit
\* the response model, an error envelope without toptags, or a toptags list
Responses ==
    {[kind |-> k, tag |-> <<>>] : k \in TransportFailures \cup {"malformed", "error"}}
    \cup {[kind |-> "toptags", tag |-> t] : t \in TagLists}
NotRequested == [kind |-> "not requested", tag |-> <<>>]

\* a constructor that rejects only the absent key
LastFMSettings_raises_absent(key) == key = NoKey

\* LastFMSettings.__init__: raises when the key is absent or empty
LastFMSettings_raises(key) == key = NoKey \/ key = ""

\* a client that catches the HTTP error status only
fetch_catches_http_only(kind) == kind = "HTTPError"

\* lines 106-120: the except clauses of _fetch_api_data
fetch_catches(kind) ==
    kind \in {"HTTPError", "ConnectionError", "Timeout", "RequestException", "ValueError"}

\* an exception of the request that no except clause catches leaves
\* _fetch_api_data
fetch_raises(resp) == resp.kind \in TransportFailures /\ ~fetch_catches(resp.kind)

\* LastFMClient._fetch_api_data: every caught failure becomes the empty
\* mapping
fetch_api_data(resp) ==
    IF resp.kind \in TransportFailures /\ fetch_catches(resp.kind)
    THEN [kind |-> "empty", tag |-> <<>>] ELSE resp

\* parse_track_tags / parse_artist_tags: the tag list of the response, the
\* empty list when there is none or when the model rejects the payload
parse_tags(json) == IF json.kind = "toptags" THEN json.tag ELSE <<>>

\* a fallback that never replaces the empty track-level list
tags_to_rank_track_only(track_tags, artist_tags) == track_tags

\* lines 45-55: the tags that go on to the ranking
tags_to_rank(track_tags, artist_tags) ==
    IF track_tags # <<>> THEN track_tags ELSE artist_tags

RECURSIVE all_tags_weights(_)
\* line 58: the (name, count) pairs of the tags that have a count
all_tags_weights(tags) ==
    IF tags = <<>> THEN <<>>
    ELSE (IF Head(tags).count # NoCount
          THEN << <<Head(tags).name, Head(tags).count>> >> ELSE <<>>)
         \o all_tags_weights(Tail(tags))

RECURSIVE total_weight(_)
\* line 59
total_weight(pairs) ==
    IF pairs = <<>> THEN 0 ELSE Head(pairs)[2] + total_weight(Tail(pairs))

RECURSIVE keep_heavy(_, _)
keep_heavy(pairs, w) ==
    IF pairs = <<>> THEN <<>>
    ELSE (IF Head(pairs)[2] >= w THEN <<Head(pairs)>> ELSE <<>>)
         \o keep_heavy(Tail(pairs), w)

\* a filter that is applied whatever the sum of the weights
filtered_tags_always(pairs, w) == keep_heavy(pairs, w)

\* lines 60-63: the min_weight filter, skipped when the weights sum to zero
filtered_tags(pairs, w) ==
    IF total_weight(pairs) > 0 THEN keep_heavy(pairs, w) ELSE pairs

RECURSIVE insert_desc(_, _)
\* x goes behind every pair that is at least as heavy
insert_desc(x, sorted) ==
    IF sorted = <<>> THEN <<x>>
    ELSE IF Head(sorted)[2] >= x[2] THEN <<Head(sorted)>> \o insert_desc(x, Tail(sorted))
    ELSE <<x>> \o sorted

RECURSIVE sorted_tags_from(_, _)
sorted_tags_from(done, rest) ==
    IF rest = <<>> THEN done
    ELSE sorted_tags_from(insert_desc(Head(rest), done), Tail(rest))

\* line 64: sorted(..., key=weight, reverse=True), a stable sort
sorted_tags(pairs) == sorted_tags_from(<<>>, pairs)

\* a cut that returns every sorted pair
top_n_tags_all(pairs, n) == pairs

\* line 65: sorted_tags[:top_n] for a positive top_n
top_n_tags(pairs, n) == SubSeq(pairs, 1, Min(n, Len(pairs)))

\* the requests one call issues: none without settings, the artist-level
\* one only after an empty track-level list
lastfm_requests(key, track_resp) ==
    IF LastFMSettings_raises(key) THEN <<>>
    ELSE IF parse_tags(fetch_api_data(track_resp)) # <<>> THEN <<"track.getTopTags">>
    ELSE <<"track.getTopTags", "artist.getTopTags">>

\* get_lastfm_tags as a whole: result, requests issued, exception raised
get_lastfm_tags(key, top_n, w, track_resp, artist_resp) ==
    IF LastFMSettings_raises(key)
    THEN [result |-> <<>>, requests |-> lastfm_requests(key, track_resp), raised |-> FALSE]
    ELSE LET track_tags == parse_tags(fetch_api_data(track_resp))
             artist_tags == parse_tags(fetch_api_data(artist_resp))
             ranked == tags_to_rank(track_tags, artist_tags)
             raised == \/ fetch_raises(track_resp)
                       \/ track_tags = <<>> /\ fetch_raises(artist_resp)
         IN  [result |-> IF raised THEN <<>>
                         ELSE top_n_tags(sorted_tags(filtered_tags(all_tags_weights(ranked), w)), top_n),
              requests |-> lastfm_requests(key, track_resp),
              raised |-> raised]

\* the answers the service gives to the requests that are issued
Answers(reqs, k) == IF Len(reqs) >= k THEN Responses ELSE {NotRequested}

InitLastfm ==
    /\ ProgramIdle
    /\ FunctionsIdleBut("lastfm")
    /\ lf_pc = "call"
    /\ lf_args \in [api_key : ApiKeys, top_n : 1..MaxTopN, min_weight : MinWeights]
    /\ lf_track_response = NotRequested
    /\ lf_artist_response = NotRequested
    /\ lf_requests = <<>>
    /\ lf_result = <<>>
    /\ lf_raised = FALSE

\* one call; the responses are whatever the service answers when asked
lastfm_call ==
    /\ lf_pc = "call"
    /\ \E tr \in Answers(lastfm_requests(lf_args.api_key, NotRequested), 1) :
       \E ar \in Answers(lastfm_requests(lf_args.api_key, tr), 2) :
         LET r == get_lastfm_tags(lf_args.api_key, lf_args.top_n, lf_args.min_weight, tr, ar)
         IN  /\ lf_result' = r.result
             /\ lf_requests' = r.requests
             /\ lf_raised' = r.raised
             /\ lf_track_response' = tr
             /\ lf_artist_response' = ar
    /\ lf_pc' = "done"
    /\ UNCHANGED lf_args
    /\ UNCHANGED programVars
    /\ FunctionsUnchangedBut("lastfm")

NextLastfm == lastfm_call

SpecLastfm == InitLastfm /\ [][NextLastfm]_vars

\* the parsed lists of the finished call
LfTrackTags == parse_tags(fetch_api_data(lf_track_response))
LfArtistTags == parse_tags(fetch_api_data(lf_artist_response))
LfCandidates == all_tags_weights(tags_to_rank(LfTrackTags, LfArtistTags))
LfKeyOk == lf_args.api_key \notin {NoKey, ""}

\* C7: with an empty track-level list and a non-empty artist-level list the
\* call returns what a call returns in which that list is the track-level
\* list, whatever the artist-level answer of that other call.
C7_ArtistFallbackRankedAlike ==
    (lf_pc = "done" /\ LfKeyOk /\ LfTrackTags = <<>> /\ LfArtistTags # <<>>) =>
        \A other \in {NotRequested, lf_track_response, lf_artist_response} :
            lf_result = get_lastfm_tags(lf_args.api_key, lf_args.top_n, lf_args.min_weight,
                                        lf_artist_response, other).result

\* a fallback call whose artist tags were partly filtered out
C7_Witness ==
    /\ lf_pc = "done"
    /\ LfKeyOk
    /\ LfTrackTags = <<>>
    /\ Len(LfArtistTags) = 2
    /\ Len(lf_result) = 1
    /\ lf_requests = <<"track.getTopTags", "artist.getTopTags">>

\* C8: when the candidate weights sum to zero nothing is dropped by the
\* min_weight filter: the result has min(top_n, number of candidates) pairs,
\* each a candidate, and is non-empty when there is a candidate.
C8_ZeroSumUnfiltered ==
    (lf_pc = "done" /\ LfKeyOk /\ total_weight(LfCandidates) = 0) =>
        /\ Len(lf_result) = Min(lf_args.top_n, Len(LfCandidates))
        /\ \A i \in 1..Len(lf_result) : lf_result[i] = LfCandidates[i]
        /\ LfCandidates # <<>> => lf_result # <<>>

\* two zero-weight candidates below a min_weight of 60, both returned
C8_Witness ==
    /\ lf_pc = "done"
    /\ LfKeyOk
    /\ lf_args.min_weight = 60
    /\ Len(LfCandidates) = 2
    /\ total_weight(LfCandidates) = 0
    /\ Len(lf_result) = 2

\* C9: with an absent or empty API key the call returns the empty list,
\* raises nothing and issues no request.
C9_NoKeyNoRequest ==
    (lf_pc = "done" /\ ~LfKeyOk) =>
        /\ lf_result = <<>>
        /\ ~lf_raised
        /\ lf_requests = <<>>
        /\ lf_track_response = NotRequested
        /\ lf_artist_response = NotRequested

\* a finished call with the empty key
C9_Witness == lf_pc = "done" /\ lf_args.api_key = "" /\ lf_result = <<>>

(***************************************************************************)
(* lastfm_tagger: LastFMClient._build_api_url                              *)
(* Strings are sequences of tokens: a caller-supplied value is a sequence  *)
(* of characters, the fixed texts (base URL, names, the key) are tokens of *)
(* their own that contain neither "&" nor "=" nor "?".                     *)
(***************************************************************************)
lastfm_api_base_url == "http://ws.audioscrobbler.com/2.0"
UrlMethods == {"track.getTopTags", "artist.getTopTags"}
ValueChars == {"A", "/", "&", "=", " "}
ACDC == <<"A", "C", "/", "D", "C">>

\* RFC 3986 reserved characters
Reserved == {":", "/", "?", "#", "[", "]", "@",
             "!", "$", "&", "'", "(", ")", "*", "+", ",", ";", "="}

\* the characters urllib.parse.quote never encodes, and its default safe set
Unreserved == {"A", "C", "D", "0", "1", "2", "3", "7", "_", ".", "-", "~"}
quote_safe == {"/"}

\* the UTF-8 percent escape of a character
PercentCode(c) ==
    CASE c = " " -> <<"%", "2", "0">>
      [] c = "&" -> <<"%", "2", "6">>
      [] c = "=" -> <<"%", "3", "D">>
      [] c = "/" -> <<"%", "2", "F">>
      [] OTHER -> <<"%", "3", "F">>

\* an encoder that leaves every character as it is
quote_char_raw(c) == <<c>>

\* urllib.parse.quote(v) on one character, with the default safe='/'
quote_char(c) ==
    IF c \in Unreserved \cup quote_safe THEN <<c>> ELSE PercentCode(c)

RECURSIVE quote(_)
quote(text) == IF text = <<>> THEN <<>> ELSE quote_char(Head(text)) \o quote(Tail(text))

\* a parameter value: a str with its characters, or a non-str value with
\* the characters of its formatting
StrValues == {[isstr |-> TRUE, text |-> t] : t \in SeqsUpTo(ValueChars, MaxStrLen) \cup {ACDC}}
NonStrValues == {[isstr |-> FALSE, text |-> <<"7">>]}
ParamValues == StrValues \cup NonStrValues

\* line 43: quote(v) if isinstance(v, str) else v
encoded_value(v) == IF v.isstr THEN quote(v.text) ELSE v.text

RECURSIVE dict_set(_, _, _)
\* dict insertion: an existing key keeps its position and takes the value
dict_set(d, k, v) ==
    IF d = <<>> THEN << [k |-> k, v |-> v] >>
    ELSE IF Head(d).k = k THEN << [k |-> k, v |-> v] >> \o Tail(d)
    ELSE <<Head(d)>> \o dict_set(Tail(d), k, v)

RECURSIVE dict_update(_, _)
dict_update(d, params) ==
    IF params = <<>> THEN d
    ELSE dict_update(dict_set(d, Head(params).k, encoded_value(Head(params).v)), Tail(params))

\* a mapping that begins with the caller's parameters
full_params_caller_first(method, api_key, params) ==
    dict_update(<<>>, params)
    \o << [k |-> "method", v |-> <<method>>],
          [k |-> "api_key", v |-> <<api_key>>],
          [k |-> "format", v |-> <<"json">>],
          [k |-> "autocorrect", v |-> <<"1">>] >>

\* lines 38-44: full_params
full_params(method, api_key, params) ==
    dict_update(<< [k |-> "method", v |-> <<method>>],
                   [k |-> "api_key", v |-> <<api_key>>],
                   [k |-> "format", v |-> <<"json">>],
                   [k |-> "autocorrect", v |-> <<"1">>] >>,
                params)

RECURSIVE param_string(_)
\* line 45: '&'.join(f"{key}={value}")
param_string(d) ==
    IF d = <<>> THEN <<>>
    ELSE <<Head(d).k, "=">> \o Head(d).v
         \o (IF Tail(d) = <<>> THEN <<>> ELSE <<"&">> \o param_string(Tail(d)))

\* line 46
build_api_url(method, api_key, params) ==
    <<lastfm_api_base_url, "?">> \o param_string(full_params(method, api_key, params))

\* the params of get_track_top_tags and of get_artist_top_tags
CallerParams(method) ==
    IF method = "track.getTopTags"
    THEN {<< [k |-> "artist", v |-> a], [k |-> "track", v |-> t] >> :
             a \in ParamValues, t \in ParamValues}
    ELSE {<< [k |-> "artist", v |-> a] >> : a \in ParamValues}

InitUrl ==
    /\ ProgramIdle
    /\ FunctionsIdleBut("url")
    /\ url_pc = "call"
    /\ url_method \in UrlMethods
    /\ url_params \in CallerParams(url_method)
    /\ url_out = <<>>

build_api_url_call ==
    /\ url_pc = "call"
    /\ url_out' = build_api_url(url_method, "key", url_params)
    /\ url_pc' = "done"
    /\ UNCHANGED <<url_method, url_params>>
    /\ UNCHANGED programVars
    /\ FunctionsUnchangedBut("url")

NextUrl == build_api_url_call

SpecUrl == InitUrl /\ [][NextUrl]_vars

RECURSIVE CountToken(_, _)
CountToken(text, c) ==
    IF text = <<>> THEN 0
    ELSE (IF Head(text) = c THEN 1 ELSE 0) + CountToken(Tail(text), c)

\* the part of the URL behind the "?" that ends the base URL
UrlQuery == SubSeq(url_out, 3, Len(url_out))

\* how often c occurs in the caller-supplied str values
RECURSIVE CountInStrValues(_, _)
CountInStrValues(params, c) ==
    IF params = <<>> THEN 0
    ELSE (IF Head(params).v.isstr THEN CountToken(Head(params).v.text, c) ELSE 0)
         + CountInStrValues(Tail(params), c)

\* the "&" and "=" of the query are those that join the parameters
QueryDelimitersOnly ==
    /\ CountToken(UrlQuery, "&") = 4 + Len(url_params) - 1
    /\ CountToken(UrlQuery, "=") = 4 + Len(url_params)

\* C10, as stated: no reserved character of a caller-supplied str value is
\* raw in the query string: the query holds the joining "&" and "=" and no
\* other reserved character, so the slash of "AC/DC" is encoded.
C10_NoReservedRaw ==
    url_pc = "done" =>
        /\ QueryDelimitersOnly
        /\ \A c \in Reserved \ {"&", "="} : CountToken(UrlQuery, c) = 0

\* C10, amended: every reserved character of a caller-supplied str value
\* except the slash is percent-encoded; the slash is in quote's default safe
\* set and stays raw, so "AC/DC" is sent as artist=AC/DC.
C10_NoReservedRawExceptSlash ==
    url_pc = "done" =>
        /\ QueryDelimitersOnly
        /\ \A c \in Reserved \ {"&", "=", "/"} : CountToken(UrlQuery, c) = 0
        /\ CountToken(UrlQuery, "/") = CountInStrValues(url_params, "/")
        /\ CountToken(UrlQuery, " ") = 0

\* the artist "AC/DC" with a track name that holds an ampersand
C10_Witness ==
    /\ url_pc = "done"
    /\ url_method = "track.getTopTags"
    /\ url_params[1].v = [isstr |-> TRUE, text |-> ACDC]
    /\ url_params[2].v = [isstr |-> TRUE, text |-> <<"A", "&">>]
    /\ url_out = <<lastfm_api_base_url, "?", "method", "=", "track.getTopTags", "&",
                   "api_key", "=", "key", "&", "format", "=", "json", "&",
                   "autocorrect", "=", "1", "&",
                   "artist", "=", "A", "C", "/", "D", "C", "&",
                   "track", "=", "A", "%", "2", "6">>

(***************************************************************************)
(* musicnn_tagger/tagger.py: get_top_n_genres, combine_genre_dicts and     *)
(* get_musicnn_tags.  A dict is the sequence of its (key, value) pairs in  *)
(* insertion order; likelihoods are kept in tenths.                        *)
(***************************************************************************)
MaxGenres == 3
MaxModels == 2

GenreNames == <<"jazz", "blues", "rock", "pop">>
GenreKeys == {GenreNames[i] : i \in 1..Min(MaxGenres, Len(GenreNames))}
Likelihoods == {5, 9}
GenreMinWeights == {0, 6}

\* the keys of a dict, and the dicts over given keys and values
Keys(d) == {d[i][1] : i \in 1..Len(d)}
Dicts(keys, vals, n) ==
    {d \in SeqsUpTo(keys \X vals, n) : Cardinality(Keys(d)) = Len(d)}

\* d[k] for a key of d, and d.get(k, default)
dict_item(d, k) == d[CHOOSE i \in 1..Len(d) : d[i][1] = k][2]
dict_get(d, k, default) == IF k \in Keys(d) THEN dict_item(d, k) ELSE default

RECURSIVE dict_store(_, _, _)
\* d[k] = v: an existing key keeps its position
dict_store(d, k, v) ==
    IF d = <<>> THEN << <<k, v>> >>
    ELSE IF Head(d)[1] = k THEN << <<k, v>> >> \o Tail(d)
    ELSE <<Head(d)>> \o dict_store(Tail(d), k, v)

RECURSIVE top_n_loop(_, _, _)
\* lines 80-87: the loop over the sorted items
top_n_loop(items, top_n, min_weight) ==
    IF items = <<>> THEN <<>>
    ELSE IF Head(items)[2] >= min_weight
    THEN IF top_n <= 0 THEN <<>>
         ELSE <<Head(items)>> \o top_n_loop(Tail(items), top_n - 1, min_weight)
    ELSE <<>>

\* a ranking that forgets to sort the items
get_top_n_genres_unsorted(data, top_n, min_weight) ==
    top_n_loop(data, top_n, min_weight)

\* get_top_n_genres: sorted(data.items(), key=value, reverse=True), then
\* the loop
get_top_n_genres(data, top_n, min_weight) ==
    top_n_loop(sorted_tags(data), top_n, min_weight)

\* an update that stores the incoming value whatever is already there
combined_value_last(combined, key, value) == value

\* line 101: max(combined_genres.get(key, 0), value)
combined_value(combined, key, value) == Max(dict_get(combined, key, 0), value)

RECURSIVE combine_update(_, _)
\* lines 100-102: combined_genres.update(...) over the items of one dict
combine_update(combined, genre_dict) ==
    IF genre_dict = <<>> THEN combined
    ELSE combine_update(
            dict_store(combined, Head(genre_dict)[1],
                       combined_value(combined, Head(genre_dict)[1], Head(genre_dict)[2])),
            Tail(genre_dict))

RECURSIVE combine_from(_, _)
combine_from(combined, genre_dicts) ==
    IF genre_dicts = <<>> THEN combined
    ELSE combine_from(combine_update(combined, Head(genre_dicts)), Tail(genre_dicts))

\* combine_genre_dicts(*genre_dicts)
combine_genre_dicts(genre_dicts) == combine_from(<<>>, genre_dicts)

\* lines 127-133: the model list of a model count, and its [:count] slice
model_names(ai_model_count) ==
    CASE ai_model_count = 2 -> <<"MSD_musicnn_big", "MTT_musicnn", "MTT_vgg">>
      [] ai_model_count = 3 -> <<"MSD_musicnn_big", "MTT_musicnn", "MTT_vgg">>
      [] ai_model_count = 4 -> <<"MSD_musicnn_big", "MTT_musicnn", "MTT_vgg", "MSD_musicnn">>
      [] ai_model_count = 5 -> <<"MSD_musicnn_big", "MTT_musicnn", "MTT_vgg", "MSD_musicnn", "MSD_vgg">>
      [] OTHER -> <<"MSD_musicnn_big", "MTT_musicnn">>

submitted_models(ai_model_count) ==
    SubSeq(model_names(ai_model_count), 1,
           Min(ai_model_count, Len(model_names(ai_model_count))))

\* what the inference of one model brings: a failure of init_extractor, or
\* the dict of get_sorted_tag_weights over the model's vocabulary
ModelVocabulary == {"female vocalists", "female"}
ModelDicts == Dicts(ModelVocabulary, Likelihoods, MaxGenres)
ModelFailure == [failed |-> TRUE, weights |-> <<>>]
ModelOutputs == {ModelFailure} \cup {[failed |-> FALSE, weights |-> d] : d \in ModelDicts}

\* _process_model
process_model(output, genres_count, min_weight) ==
    IF output.failed THEN <<>>
    ELSE get_top_n_genres(output.weights, genres_count, min_weight)

\* the permutations of 1..n: the orders in which the futures can complete
CompletionOrders(n) == {p \in [1..n -> 1..n] : \A i, j \in 1..n : p[i] = p[j] => i = j}

\* get_musicnn_tags for the model outputs and one completion order
get_musicnn_tags(ai_model_count, ai_genres_count, max_genres_return_count, min_weight, outputs, order) ==
    LET tags_list == [i \in 1..Len(outputs) |->
                         process_model(outputs[order[i]], ai_genres_count, min_weight)]
        combined_tags == combine_genre_dicts(tags_list)
    IN  get_top_n_genres(combined_tags, max_genres_return_count, min_weight)

TopNArgs ==
    [data : Dicts(GenreKeys, Likelihoods, MaxGenres),
     top_n : (-1)..MaxTopN,
     min_weight : GenreMinWeights]

CombineArgs == SeqsUpTo(ModelDicts, MaxModels)

SeqsOfLen(S, n) == {q \in SeqsUpTo(S, n) : Len(q) = n}

MusicnnArgs ==
    UNION {[ai_model_count : {c},
            ai_genres_count : 1..MaxTopN,
            max_genres_return_count : 1..MaxTopN,
            min_weight : GenreMinWeights,
            outputs : SeqsOfLen(ModelOutputs, Len(submitted_models(c)))] : c \in 1..MaxModels}

InitGenres ==
    /\ ProgramIdle
    /\ FunctionsIdleBut("genres")
    /\ mn_pc = "call"
    /\ mn_op \in {"get_top_n_genres", "combine_genre_dicts", "get_musicnn_tags"}
    /\ mn_args \in CASE mn_op = "get_top_n_genres" -> TopNArgs
                     [] mn_op = "combine_genre_dicts" -> CombineArgs
                     [] OTHER -> MusicnnArgs
    /\ mn_out = <<>>

get_top_n_genres_call ==
    /\ mn_pc = "call"
    /\ mn_op = "get_top_n_genres"
    /\ mn_out' = get_top_n_genres(mn_args.data, mn_args.top_n, mn_args.min_weight)
    /\ mn_pc' = "done"
    /\ UNCHANGED <<mn_op, mn_args>>
    /\ UNCHANGED programVars
    /\ FunctionsUnchangedBut("genres")

combine_genre_dicts_call ==
    /\ mn_pc = "call"
    /\ mn_op = "combine_genre_dicts"
    /\ mn_out' = combine_genre_dicts(mn_args)
    /\ mn_pc' = "done"
    /\ UNCHANGED <<mn_op, mn_args>>
    /\ UNCHANGED programVars
    /\ FunctionsUnchangedBut("genres")

\* the futures complete in any order
get_musicnn_tags_call ==
    /\ mn_pc = "call"
    /\ mn_op = "get_musicnn_tags"
    /\ \E order \in CompletionOrders(Len(mn_args.outputs)) :
          mn_out' = get_musicnn_tags(mn_args.ai_model_count, mn_args.ai_genres_count,
                                     mn_args.max_genres_return_count, mn_args.min_weight,
                                     mn_args.outputs, order)
    /\ mn_pc' = "done"
    /\ UNCHANGED <<mn_op, mn_args>>
    /\ UNCHANGED programVars
    /\ FunctionsUnchangedBut("genres")

NextGenres ==
    \/ get_top_n_genres_call
    \/ combine_genre_dicts_call
    \/ get_musicnn_tags_call

SpecGenres == InitGenres /\ [][NextGenres]_vars

\* position of a key in a dict
KeyPos(d, k) == CHOOSE i \in 1..Len(d) : d[i][1] = k

\* C11: the result of get_top_n_genres is a prefix of the candidates in
\* stable descending-value order (every returned pair is a candidate, the
\* values do not increase, equal values keep their original order, and a
\* candidate left out is smaller than every returned one or ties with it and
\* comes later in the input), has at most top_n entries all >= min_weight,
\* and is the longest such prefix: it ends at top_n entries or because every
\* candidate left is below min_weight; it is empty when top_n <= 0.
C11_TopNLongestPrefix ==
    (mn_pc = "done" /\ mn_op = "get_top_n_genres") =>
        LET data == mn_args.data
            out == mn_out
            left == {i \in 1..Len(data) : data[i][1] \notin Keys(out)}
        IN  /\ Cardinality(Keys(out)) = Len(out)
            /\ \A i \in 1..Len(out) :
                  /\ out[i][1] \in Keys(data)
                  /\ out[i][2] = dict_item(data, out[i][1])
                  /\ out[i][2] >= mn_args.min_weight
            /\ \A i, j \in 1..Len(out) :
                  i < j => \/ out[i][2] > out[j][2]
                           \/ /\ out[i][2] = out[j][2]
                              /\ KeyPos(data, out[i][1]) < KeyPos(data, out[j][1])
            /\ \A i \in 1..Len(out) : \A l \in left :
                  \/ data[l][2] < out[i][2]
                  \/ data[l][2] = out[i][2] /\ KeyPos(data, out[i][1]) < l
            /\ Len(out) <= Max(mn_args.top_n, 0)
            /\ \/ Len(out) = Max(mn_args.top_n, 0)
               \/ \A l \in left : data[l][2] < mn_args.min_weight
            /\ mn_args.top_n <= 0 => out = <<>>

\* the example of the ranking rule: a tie of two kept in input order, the
\* third candidate excluded
C11_Witness ==
    /\ mn_pc = "done"
    /\ mn_op = "get_top_n_genres"
    /\ mn_args.data = << <<"rock", 5>>, <<"jazz", 9>>, <<"blues", 9>> >>
    /\ mn_args.top_n = 2
    /\ mn_args.min_weight = 6
    /\ mn_out = << <<"jazz", 9>>, <<"blues", 9>> >>

\* a dict as a key-to-value mapping
AsMapping(d) == [k \in Keys(d) |-> dict_item(d, k)]

\* the largest element of a non-empty set of numbers
SetMax(S) == CHOOSE x \in S : \A y \in S : y <= x

\* C12: the keys of the combined map are the union of the keys of the
\* inputs, the value of a key is the maximum of its values over the inputs
\* that contain it, and every permutation of the inputs combines to the
\* same key-to-value mapping.
C12_CombineByMax ==
    (mn_pc = "done" /\ mn_op = "combine_genre_dicts") =>
        LET dicts == mn_args
            n == Len(dicts)
        IN  /\ Keys(mn_out) = UNION {Keys(dicts[i]) : i \in 1..n}
            /\ Cardinality(Keys(mn_out)) = Len(mn_out)
            /\ \A k \in Keys(mn_out) :
                  dict_item(mn_out, k) =
                      SetMax({dict_item(dicts[i], k) : i \in {j \in 1..n : k \in Keys(dicts[j])}})
            /\ \A p \in CompletionOrders(n) :
                  AsMapping(combine_genre_dicts([i \in 1..n |-> dicts[p[i]]])) = AsMapping(mn_out)

\* a key of two inputs whose larger value comes first, and a key of one
C12_Witness ==
    /\ mn_pc = "done"
    /\ mn_op = "combine_genre_dicts"
    /\ mn_args = << << <<"female", 9>>, <<"female vocalists", 5>> >>, << <<"female", 5>> >> >>
    /\ mn_out = << <<"female", 9>>, <<"female vocalists", 5>> >>

\* the keyword sets of the gender tags
FemaleKeywords == {"woman", "female", "female vocal", "female voice",
                   "female vocalists", "female singer", "female vocals"}
MaleKeywords == {"man", "male", "male vocal", "male voice",
                 "male vocalists", "male singer", "male vocals"}

\* C13: the map returned by get_musicnn_tags holds at most one key of the
\* female-keyword set and at most one key of the male-keyword set.
C13_OneKeyPerGenderGroup ==
    (mn_pc = "done" /\ mn_op = "get_musicnn_tags") =>
        /\ Cardinality(Keys(mn_out) \cap FemaleKeywords) <= 1
        /\ Cardinality(Keys(mn_out) \cap MaleKeywords) <= 1

(***************************************************************************)
(* MusicTagger._extract_artist_track_from_filename and _deduplicate_name.  *)
(* A str is the sequence of its characters, "" the empty sequence.         *)
(***************************************************************************)
MaxNameLen == 5

\* the character U+2014 of the separator list
EmDash == "<U+2014>"

FilenameChars == {"a", " ", "-", EmDash, "_", "."}
NameChars == {"k", "K", " "}
Whitespace == {" "}

\* the lowest index at which sub occurs in text, 0 when it does not
find(text, sub) ==
    LET hits == {i \in 1..(Len(text) - Len(sub) + 1) :
                    SubSeq(text, i, i + Len(sub) - 1) = sub}
    IN  IF hits = {} THEN 0 ELSE CHOOSE i \in hits : \A j \in hits : i <= j

RECURSIVE lstrip(_)
lstrip(text) ==
    IF text # <<>> /\ Head(text) \in Whitespace THEN lstrip(Tail(text)) ELSE text

RECURSIVE rstrip(_)
rstrip(text) ==
    IF text # <<>> /\ text[Len(text)] \in Whitespace
    THEN rstrip(SubSeq(text, 1, Len(text) - 1)) ELSE text

\* str.strip()
strip(text) == rstrip(lstrip(text))

\* str.rfind('.'): the highest index of a dot, 0 when there is none
rfind_dot(text) ==
    LET dots == {i \in 1..Len(text) : text[i] = "."}
    IN  IF dots = {} THEN 0 ELSE CHOOSE i \in dots : \A j \in dots : j <= i

\* os.path.splitext(text)[0] of a name without directory separators: the
\* part before the last dot, unless only dots come before it
splitext_root(text) ==
    LET dotIndex == rfind_dot(text)
    IN  IF dotIndex > 0 /\ \E i \in 1..(dotIndex - 1) : text[i] # "."
        THEN SubSeq(text, 1, dotIndex - 1)
        ELSE text

\* a list that tries the bare hyphen before the spaced one
separators_hyphen_first == << <<"-">>, <<" ", "-", " ">>, <<EmDash>>, <<"_">> >>

\* line 187
separators == << <<" ", "-", " ">>, <<"-">>, <<EmDash>>, <<"_">> >>

RECURSIVE split_on_first(_, _)
\* lines 189-194: the loop over the separators; the result is the pair
\* (artist_name, track_name) before the extension is removed
split_on_first(filename, seps) ==
    IF seps = <<>> THEN << <<>>, filename >>
    ELSE LET sep == Head(seps)
             at == find(filename, sep)
         IN  IF at > 0
             THEN << strip(SubSeq(filename, 1, at - 1)),
                     strip(SubSeq(filename, at + Len(sep), Len(filename))) >>
             ELSE split_on_first(filename, Tail(seps))

\* _extract_artist_track_from_filename
extract_artist_track_from_filename(filename) ==
    LET parts == split_on_first(filename, separators)
    IN  << parts[1], splitext_root(parts[2]) >>

RECURSIVE split_from(_, _)
\* str.split(): the maximal runs of non-whitespace characters; word is the
\* run being read
split_from(text, word) ==
    IF text = <<>> THEN (IF word = <<>> THEN <<>> ELSE <<word>>)
    ELSE IF Head(text) \in Whitespace
    THEN (IF word = <<>> THEN <<>> ELSE <<word>>) \o split_from(Tail(text), <<>>)
    ELSE split_from(Tail(text), Append(word, Head(text)))

split(text) == split_from(text, <<>>)

RECURSIVE join(_)
\* " ".join(words)
join(words) ==
    IF words = <<>> THEN <<>>
    ELSE IF Len(words) = 1 THEN words[1]
    ELSE words[1] \o <<" ">> \o join(Tail(words))

RECURSIVE fromkeys_last(_)
\* a de-duplication that keeps the last occurrence of a word
fromkeys_last(words) ==
    IF words = <<>> THEN <<>>
    ELSE IF \E i \in 2..Len(words) : words[i] = Head(words)
    THEN fromkeys_last(Tail(words))
    ELSE <<Head(words)>> \o fromkeys_last(Tail(words))

unique_words_last(words) == fromkeys_last(words)

RECURSIVE fromkeys(_, _)
\* list(dict.fromkeys(words)): a word is appended unless it is already a key
fromkeys(words, seen) ==
    IF words = <<>> THEN seen
    ELSE IF \E i \in 1..Len(seen) : seen[i] = Head(words)
    THEN fromkeys(Tail(words), seen)
    ELSE fromkeys(Tail(words), Append(seen, Head(words)))

\* line 207
unique_words(words) == fromkeys(words, <<>>)

\* _deduplicate_name
deduplicate_name(name) ==
    IF name = <<>> THEN <<>> ELSE join(unique_words(split(name)))

InitNames ==
    /\ ProgramIdle
    /\ FunctionsIdleBut("names")
    /\ nm_pc = "call"
    /\ nm_op \in {"_extract_artist_track_from_filename", "_deduplicate_name"}
    /\ nm_in \in IF nm_op = "_deduplicate_name"
                 THEN SeqsUpTo(NameChars, MaxNameLen)
                 ELSE SeqsUpTo(FilenameChars, MaxNameLen)
    /\ nm_out = <<>>

extract_artist_track_from_filename_call ==
    /\ nm_pc = "call"
    /\ nm_op = "_extract_artist_track_from_filename"
    /\ nm_out' = extract_artist_track_from_filename(nm_in)
    /\ nm_pc' = "done"
    /\ UNCHANGED <<nm_op, nm_in>>
    /\ UNCHANGED programVars
    /\ FunctionsUnchangedBut("names")

deduplicate_name_call ==
    /\ nm_pc = "call"
    /\ nm_op = "_deduplicate_name"
    /\ nm_out' = deduplicate_name(nm_in)
    /\ nm_pc' = "done"
    /\ UNCHANGED <<nm_op, nm_in>>
    /\ UNCHANGED programVars
    /\ FunctionsUnchangedBut("names")

NextNames ==
    \/ extract_artist_track_from_filename_call
    \/ deduplicate_name_call

SpecNames == InitNames /\ [][NextNames]_vars

\* sub occurs in text at index i
OccursAt(text, sub, i) ==
    /\ i >= 1
    /\ i + Len(sub) - 1 <= Len(text)
    /\ SubSeq(text, i, i + Len(sub) - 1) = sub
Occurs(text, sub) == \E i \in 1..Len(text) : OccursAt(text, sub, i)

\* the separators in the priority order of the claim
SeparatorPriority == << <<" ", "-", " ">>, <<"-">>, <<EmDash>>, <<"_">> >>

\* C14: when a separator is present the name is split once at the first
\* occurrence of the highest-priority separator present, wherever separators
\* of lower priority occur: the artist is the trimmed text before it, the
\* track the trimmed text after it without its extension; when no separator
\* is present the artist is "" and the track the name without extension.
C14_SplitAtHighestPriority ==
    (nm_pc = "done" /\ nm_op = "_extract_artist_track_from_filename") =>
        IF \E p \in 1..Len(SeparatorPriority) : Occurs(nm_in, SeparatorPriority[p])
        THEN \E p \in 1..Len(SeparatorPriority) : \E i \in 1..Len(nm_in) :
                LET sep == SeparatorPriority[p]
                IN  /\ OccursAt(nm_in, sep, i)
                    /\ \A j \in 1..(i - 1) : ~OccursAt(nm_in, sep, j)
                    /\ \A q \in 1..(p - 1) : ~Occurs(nm_in, SeparatorPriority[q])
                    /\ nm_out[1] = strip(SubSeq(nm_in, 1, i - 1))
                    /\ nm_out[2] =
                          splitext_root(strip(SubSeq(nm_in, i + Len(sep), Len(nm_in))))
        ELSE /\ nm_out[1] = <<>>
             /\ nm_out[2] = splitext_root(nm_in)

\* "- - a": the spaced hyphen is taken although a bare hyphen comes first
C14_Witness ==
    /\ nm_pc = "done"
    /\ nm_op = "_extract_artist_track_from_filename"
    /\ nm_in = <<"-", " ", "-", " ", "a">>
    /\ nm_out = << <<"-">>, <<"a">> >>

\* the index of the first occurrence of a word in a list of words
FirstIndex(words, w) == CHOOSE i \in 1..Len(words) : words[i] = w /\ \A j \in 1..(i - 1) : words[j] # w

\* C15: the words of the result are the distinct words of the name, each
\* once, in the order of their first occurrences, compared case-sensitively
\* and joined by single spaces; de-duplicating the result changes nothing.
C15_FirstOccurrencesKept ==
    (nm_pc = "done" /\ nm_op = "_deduplicate_name") =>
        LET words == split(nm_in)
            kept == split(nm_out)
        IN  /\ {kept[i] : i \in 1..Len(kept)} = {words[i] : i \in 1..Len(words)}
            /\ \A i, j \in 1..Len(kept) :
                  i < j => /\ kept[i] # kept[j]
                           /\ FirstIndex(words, kept[i]) < FirstIndex(words, kept[j])
            /\ nm_out = join(kept)
            /\ deduplicate_name(nm_out) = nm_out

\* "k K k": the repeat of k is dropped, K is another word
C15_Witness ==
    /\ nm_pc = "done"
    /\ nm_op = "_deduplicate_name"
    /\ nm_in = <<"k", " ", "K", " ", "k">>
    /\ nm_out = <<"k", " ", "K">>

(***************************************************************************)
(* musicnn_tagger/config.py: MusicnnSettings over the .env file and the    *)
(* environment of the process.  load_dotenv is called without override, so *)
(* it leaves alone every key the environment already holds; set_key        *)
(* rewrites the file only.                                                 *)
(***************************************************************************)
MaxProcesses == 2

\* load_dotenv(dotenv_path): the keys of the file that the environment lacks
load_dotenv(environ, file) ==
    [k \in DOMAIN environ \cup DOMAIN file |->
        IF k \in DOMAIN environ THEN environ[k] ELSE file[k]]

\* os.getenv(k, default)
getenv(environ, k, default) == IF k \in DOMAIN environ THEN environ[k] ELSE default

\* float(text) and int(text): ValueError for a text that is no number, and
\* for int also for the text of a float
FloatRaises(text) == text.type \notin {"float", "int"}
float(text) == IF text.type = "int" THEN text.num * 10 ELSE text.num
IntRaises(text) == text.type # "int"
int(text) == text.num

\* json.loads(text) raises JSONDecodeError unless the text is JSON
JsonRaises(text) == text.type \notin {"json object", "json other"}
json_loads(text) == text.value
IsDict(text) == text.type = "json object"

AbsentText == [type |-> "absent"]
EmptyText == [type |-> "empty"]
Falsy(text) == text.type \in {"absent", "empty"}

\* default_enabled_models
default_enabled_models == [m \in ModelNames |-> TRUE]

\* lines 42-53: enabled_models from the text of MUSICNN_ENABLED_MODELS
load_enabled_models(text) ==
    IF Falsy(text) THEN default_enabled_models
    ELSE IF JsonRaises(text) THEN default_enabled_models
    ELSE IF ~IsDict(text) THEN default_enabled_models
    ELSE json_loads(text)

\* __post_init__: the environment after load_dotenv, whether float() or
\* int() raised, and the object constructed.  The defaults of getenv are
\* the float 0.2 and the int 5, which float() and int() return unchanged.
MusicnnSettings_post_init(environ, file) ==
    LET env1 == load_dotenv(environ, file)
        src == env1
        tw == getenv(src, "MUSICNN_THRESHOLD_WEIGHT", str_float(2))
        gc == getenv(src, "MUSICNN_GENRES_COUNT", str_int(5))
        raised == FloatRaises(tw) \/ IntRaises(gc)
    IN  [environ |-> env1,
         raised |-> raised,
         settings |->
            IF raised THEN <<>>
            ELSE [enabled |-> StrBool(getenv(src, "MUSICNN_ENABLED", "True")),
                  threshold_weight |-> float(tw),
                  genres_count |-> int(gc),
                  enabled_models |->
                      load_enabled_models(getenv(src, "MUSICNN_ENABLED_MODELS", AbsentText))]]

\* the objects a caller saves
SavedThresholds == {2, 5}
SavedGenresCounts == {5, 6}
SavedModelMaps == {default_enabled_models, [m \in {"MTT_vgg"} |-> TRUE], [m \in {} |-> TRUE]}
SettingsObjects ==
    [enabled : BOOLEAN, threshold_weight : SavedThresholds,
     genres_count : SavedGenresCounts, enabled_models : SavedModelMaps]

\* the file a process finds: none, one written by an earlier save, or one
\* whose map text was edited by hand
InitFiles ==
    {<<>>, MusicnnSettings_save(<<>>, MusicnnSettings_init)}
    \cup {set_key(MusicnnSettings_save(<<>>, MusicnnSettings_init), "MUSICNN_ENABLED_MODELS", t) :
            t \in {EmptyText, [type |-> "other"], [type |-> "json other", value |-> <<>>]}}

InitSettings ==
    /\ ProgramIdle
    /\ FunctionsIdleBut("settings")
    /\ st_pc = "start"
    /\ st_file \in InitFiles
    /\ st_environ = <<>>
    /\ st_settings = <<>>
    /\ st_saved = <<>>
    /\ st_restarted = FALSE
    /\ st_processes = 1

\* MusicnnSettings(): at the start of a process or right after a save
MusicnnSettings_construct ==
    /\ st_pc \in {"start", "saved"}
    /\ LET r == MusicnnSettings_post_init(st_environ, st_file)
       IN  /\ st_environ' = r.environ
           /\ st_settings' = r.settings
           /\ st_pc' = IF r.raised THEN "raised"
                       ELSE IF st_pc = "start" THEN "loaded" ELSE "reloaded"
    /\ UNCHANGED <<st_file, st_saved, st_restarted, st_processes>>
    /\ UNCHANGED programVars
    /\ FunctionsUnchangedBut("settings")

\* the caller sets the four fields and calls save_settings
MusicnnSettings_save_settings ==
    /\ st_pc \in {"loaded", "reloaded"}
    /\ \E o \in SettingsObjects :
          /\ st_settings' = o
          /\ st_saved' = o
          /\ st_file' = MusicnnSettings_save(st_file, o)
    /\ st_restarted' = FALSE
    /\ st_pc' = "saved"
    /\ UNCHANGED <<st_environ, st_processes>>
    /\ UNCHANGED programVars
    /\ FunctionsUnchangedBut("settings")

\* the process ends after a save and a later one starts with an environment
\* that holds none of the keys of the file
process_restart ==
    /\ st_pc = "saved"
    /\ st_processes < MaxProcesses
    /\ st_environ' = <<>>
    /\ st_settings' = <<>>
    /\ st_restarted' = TRUE
    /\ st_processes' = st_processes + 1
    /\ UNCHANGED <<st_pc, st_file, st_saved>>
    /\ UNCHANGED programVars
    /\ FunctionsUnchangedBut("settings")

NextSettings ==
    \/ MusicnnSettings_construct
    \/ MusicnnSettings_save_settings
    \/ process_restart

SpecSettings == InitSettings /\ [][NextSettings]_vars

\* C16: a MusicnnSettings constructed after a save, in the same process or
\* in a later one, has the saved enabled, threshold_weight and genres_count
\* and an enabled_models map equal to the saved one.
C16_SaveReloadRoundTrip ==
    st_pc \in {"reloaded", "raised"} /\ st_saved # <<>> =>
        /\ st_pc = "reloaded"
        /\ st_settings.enabled = st_saved.enabled
        /\ st_settings.threshold_weight = st_saved.threshold_weight
        /\ st_settings.genres_count = st_saved.genres_count
        /\ st_settings.enabled_models = st_saved.enabled_models

(***************************************************************************)
(* MusicTagger.set_genre_tag and process_music_file.  A str is a sequence  *)
(* of tokens: words, the comma and the space.                              *)
(***************************************************************************)
MaxInputLen == 2
MaxPrompts == 2

\* a table that also lists .txt
SUPPORTED_FORMATS_txt ==
    [ext \in {".mp3", ".m4a", ".flac", ".ogg", ".opus", ".oga", ".spx", ".wav",
              ".aiff", ".aif", ".asf", ".wma", ".wmv", ".ape", ".wv", ".txt"} |->
        CASE ext = ".mp3" -> "EasyID3"
          [] ext = ".m4a" -> "MP4"
          [] ext = ".flac" -> "FLAC"
          [] ext = ".ogg" -> "OggVorbis"
          [] ext = ".opus" -> "OggOpus"
          [] ext = ".oga" -> "OggFLAC"
          [] ext = ".spx" -> "OggSpeex"
          [] ext = ".wav" -> "WAVE"
          [] ext \in {".aiff", ".aif"} -> "AIFF"
          [] ext \in {".asf", ".wma", ".wmv"} -> "ASF"
          [] ext = ".ape" -> "APEv2"
          [] ext = ".wv" -> "WavPack"
          [] OTHER -> "File"]

\* lines 88-104: the 'module' of each key of SUPPORTED_FORMATS
SUPPORTED_FORMATS ==
    [ext \in {".mp3", ".m4a", ".flac", ".ogg", ".opus", ".oga", ".spx", ".wav",
              ".aiff", ".aif", ".asf", ".wma", ".wmv", ".ape", ".wv"} |->
        CASE ext = ".mp3" -> "EasyID3"
          [] ext = ".m4a" -> "MP4"
          [] ext = ".flac" -> "FLAC"
          [] ext = ".ogg" -> "OggVorbis"
          [] ext = ".opus" -> "OggOpus"
          [] ext = ".oga" -> "OggFLAC"
          [] ext = ".spx" -> "OggSpeex"
          [] ext = ".wav" -> "WAVE"
          [] ext \in {".aiff", ".aif"} -> "AIFF"
          [] ext \in {".asf", ".wma", ".wmv"} -> "ASF"
          [] ext = ".ape" -> "APEv2"
          [] OTHER -> "WavPack"]

\* the 'alt_module' entry, present for .mp3 only
alt_module(ext) == IF ext = ".mp3" THEN "MP3" ELSE "None"

\* os.path.splitext(file_path)[1] of the paths of the model, and .lower()
PathExtensions == {".mp3", ".WAV", ".flac", ".txt"}
lower_ext(ext) == IF ext = ".WAV" THEN ".wav" ELSE ext

\* what an open, an assignment or a save can do
OpenOutcomes == {"ok", "MutagenError", "Exception"}
Id3Outcomes == {"ok", "ID3NoHeaderError", "Exception"}
SaveOutcomes == {"ok", "Exception"}

\* the outcomes that can matter for a path: of module(file_path), of the
\* alt_module call, of ID3(file_path) and of the assignment and save
Faults(ext) ==
    IF lower_ext(ext) \notin DOMAIN SUPPORTED_FORMATS
    THEN {[open |-> "ok", alt |-> "ok", id3 |-> "ok", save |-> "ok"]}
    ELSE [open : OpenOutcomes,
          alt : IF lower_ext(ext) = ".mp3" THEN SaveOutcomes ELSE {"ok"},
          id3 : IF lower_ext(ext) = ".wav" THEN Id3Outcomes ELSE {"ok"},
          save : SaveOutcomes]

\* the genres argument: a str, a list of str, or a value of another type
GenresStr(text) == [type |-> "str", value |-> text]
GenresList(list) == [type |-> "list", value |-> list]
GenresOther == [type |-> "other", value |-> <<>>]

Opened(handler) == [ev |-> "open", by |-> "set_genre_tag", handler |-> handler]
Saved(list) == [ev |-> "save", by |-> "set_genre_tag", genres |-> list]

Raised(at, exception) ==
    [ev |-> "raise", by |-> "set_genre_tag", at |-> at, exception |-> exception]

\* lines 122-170, the body of the try block: the returned value, the
\* handlers opened, the exceptions raised and the save made, for the
\* outcomes f of the library calls; raised names the exception that leaves
\* the block
set_genre_tag_body(ext, genres, f) ==
    LET genre_list == IF genres.type = "str" THEN <<genres.value>> ELSE genres.value
        e == lower_ext(ext)
        returns(value, events) == [returned |-> value, events |-> events, raised |-> "none"]
        raises(events) == [returned |-> FALSE, events |-> events, raised |-> "Exception"]
    IN  IF genres.type = "other" THEN returns(FALSE, <<>>)
        ELSE IF e \notin DOMAIN SUPPORTED_FORMATS THEN returns(FALSE, <<>>)
        ELSE LET first == <<Opened(SUPPORTED_FORMATS[e])>>
             IN  IF f.open = "Exception"
                 THEN raises(first \o <<Raised("open", "Exception")>>)
                 ELSE IF f.open = "MutagenError" /\ ~(e = ".mp3" /\ alt_module(e) # "None")
                 THEN returns(FALSE, first \o <<Raised("open", "MutagenError")>>)
                 ELSE IF f.open = "MutagenError" /\ f.alt # "ok"
                 THEN raises(first \o <<Raised("open", "MutagenError"), Opened(alt_module(e)),
                                        Raised("alt_module", "Exception")>>)
                 ELSE LET opened == IF f.open = "ok" THEN first
                                    ELSE first \o <<Raised("open", "MutagenError"),
                                                    Opened(alt_module(e))>>
                      IN  IF e = ".wav"
                          THEN LET ev2 == opened \o <<Opened("ID3")>>
                                   ev3 == IF f.id3 = "ID3NoHeaderError"
                                          THEN ev2 \o <<Raised("ID3", "ID3NoHeaderError")>>
                                          ELSE ev2
                               IN  IF f.id3 = "Exception"
                                   THEN raises(ev2 \o <<Raised("ID3", "Exception")>>)
                                   ELSE IF f.save # "ok"
                                   THEN raises(ev3 \o <<Raised("save", "Exception")>>)
                                   ELSE returns(TRUE, ev3 \o <<Saved(genre_list)>>)
                          ELSE IF f.save # "ok"
                          THEN raises(opened \o <<Raised("save", "Exception")>>)
                          ELSE returns(TRUE, opened \o <<Saved(genre_list)>>)

\* a set_genre_tag without the handler of lines 172-174
set_genre_tag_uncaught(ext, genres, f) == set_genre_tag_body(ext, genres, f)

\* set_genre_tag: the try block, and the handler of lines 172-174 that turns
\* every exception leaving it into the return value False
set_genre_tag(ext, genres, f) ==
    LET body == set_genre_tag_body(ext, genres, f)
    IN  IF body.raised # "none"
        THEN [returned |-> FALSE, events |-> body.events, raised |-> "none"]
        ELSE body

\* the genre tag of the file after the events of a call
RECURSIVE file_after(_, _)
file_after(file, events) ==
    IF events = <<>> THEN file
    ELSE file_after(IF Head(events).ev = "save" THEN Head(events).genres ELSE file,
                    Tail(events))

\* tokens of the texts the operator types, and str.lower() on a token
InputTokens == {"rock", "skip", "SKIP", ",", " "}
lower_token(t) == IF t = "SKIP" THEN "skip" ELSE t
lower(text) == [i \in 1..Len(text) |-> lower_token(text[i])]

RECURSIVE split_comma_from(_, _)
\* str.split(","): the pieces between the commas, empty pieces included
split_comma_from(text, piece) ==
    IF text = <<>> THEN <<piece>>
    ELSE IF Head(text) = ","
    THEN <<piece>> \o split_comma_from(Tail(text), <<>>)
    ELSE split_comma_from(Tail(text), Append(piece, Head(text)))

split_comma(text) == split_comma_from(text, <<>>)

\* a test that takes only the exact text skip
is_skip_exact(genre_input) == genre_input = <<"skip">>

\* line 343, on the stripped input
is_skip(genre_input) == lower(genre_input) = <<"skip">>

\* lines 346-350: the genres of a non-empty input
input_genres(genre_input) ==
    IF \E i \in 1..Len(genre_input) : genre_input[i] = ","
    THEN LET pieces == split_comma(genre_input)
         IN  GenresList([i \in 1..Len(pieces) |-> strip(pieces[i])])
    ELSE GenresStr(genre_input)

RECURSIVE unique_from(_, _)
\* line 319: sorted(set(all), key=all.index): each tag at its first index
unique_from(all, i) ==
    IF i > Len(all) THEN <<>>
    ELSE (IF \E j \in 1..(i - 1) : all[j] = all[i] THEN <<>> ELSE <<all[i]>>)
         \o unique_from(all, i + 1)

\* a union that keeps every occurrence
suggested_genres_all_concatenated(ai, lastfm) == ai \o lastfm

suggested_genres_all_unique(ai, lastfm) == unique_from(ai \o lastfm, 1)

\* an auto-apply that writes the first suggestion only
auto_apply_genres_first(unique) == <<unique[1]>>

\* line 356
auto_apply_genres(unique) == unique

\* the tags that are suggested, each a str of one word
SuggestedTags == {<<"rock">>, <<"pop">>}
SuggestionLists == {l \in SeqsUpTo(SuggestedTags, MaxTags) :
                        \A i, j \in 1..Len(l) : l[i] = l[j] => i = j}

OriginalGenre == << <<"blues">> >>

DirectGenres ==
    {GenresStr(<<"rock">>), GenresList(<< <<"rock">>, <<"pop">> >>), GenresList(<<>>), GenresOther}

InitTagging ==
    /\ ProgramIdle
    /\ FunctionsIdleBut("tagging")
    /\ tg_pc = "call"
    /\ tg_op \in {"set_genre_tag", "process_music_file"}
    /\ tg_args \in IF tg_op = "set_genre_tag"
                   THEN [ext : PathExtensions, genres : DirectGenres]
                   ELSE [ext : PathExtensions, auto_apply_tags : BOOLEAN,
                         cached : SuggestionLists, lastfm_enabled : BOOLEAN]
    /\ tg_suggested = <<>>
    /\ tg_genres = IF tg_op = "set_genre_tag" THEN tg_args.genres ELSE GenresOther
    /\ tg_events = <<>>
    /\ tg_file = OriginalGenre
    /\ tg_result = FALSE

\* lines 288-334: the cached suggestions, the metadata (which opens a
\* supported file for reading), the remote suggestions and their union
process_music_file_suggest ==
    /\ tg_pc = "call"
    /\ tg_op = "process_music_file"
    /\ \E lastfm \in IF tg_args.lastfm_enabled THEN SuggestionLists ELSE {<<>>} :
          tg_suggested' = [ai |-> tg_args.cached, lastfm |-> lastfm,
                           unique |-> suggested_genres_all_unique(tg_args.cached, lastfm)]
    /\ tg_events' =
          IF lower_ext(tg_args.ext) \in DOMAIN SUPPORTED_FORMATS
          THEN << [ev |-> "open", by |-> "_extract_metadata_from_file",
                   handler |-> SUPPORTED_FORMATS[lower_ext(tg_args.ext)]] >>
          ELSE <<>>
    /\ tg_pc' = "loop"
    /\ UNCHANGED <<tg_op, tg_args, tg_genres, tg_file, tg_result>>
    /\ UNCHANGED programVars
    /\ FunctionsUnchangedBut("tagging")

\* the number of prompts answered so far
Prompts == Cardinality({i \in 1..Len(tg_events) : tg_events[i].ev = "input"})

\* lines 341-353: one prompt in interactive mode
process_music_file_input ==
    /\ tg_pc = "loop"
    /\ ~tg_args.auto_apply_tags
    /\ \E typed \in SeqsUpTo(InputTokens, MaxInputLen) :
          LET genre_input == strip(typed)
          IN  /\ genre_input = <<>> => Prompts + 1 < MaxPrompts
              /\ tg_events' = Append(tg_events, [ev |-> "input", by |-> "process_music_file",
                                                 text |-> typed])
              /\ IF is_skip(genre_input)
                 THEN tg_pc' = "done" /\ tg_result' = FALSE /\ UNCHANGED tg_genres
                 ELSE IF genre_input # <<>>
                 THEN tg_pc' = "tag" /\ tg_genres' = input_genres(genre_input) /\ UNCHANGED tg_result
                 ELSE UNCHANGED <<tg_pc, tg_genres, tg_result>>
    /\ UNCHANGED <<tg_op, tg_args, tg_suggested, tg_file>>
    /\ UNCHANGED programVars
    /\ FunctionsUnchangedBut("tagging")

\* lines 354-360: auto-apply
process_music_file_auto ==
    /\ tg_pc = "loop"
    /\ tg_args.auto_apply_tags
    /\ IF tg_suggested.unique # <<>>
       THEN /\ tg_genres' = GenresList(auto_apply_genres(tg_suggested.unique))
            /\ tg_pc' = "tag"
            /\ UNCHANGED tg_result
       ELSE /\ tg_pc' = "done"
            /\ tg_result' = FALSE
            /\ UNCHANGED tg_genres
    /\ UNCHANGED <<tg_op, tg_args, tg_suggested, tg_events, tg_file>>
    /\ UNCHANGED programVars
    /\ FunctionsUnchangedBut("tagging")

\* set_genre_tag, called directly or from line 363
set_genre_tag_call ==
    /\ \/ tg_pc = "call" /\ tg_op = "set_genre_tag"
       \/ tg_pc = "tag"
    /\ \E f \in Faults(tg_args.ext) :
          LET r == set_genre_tag(tg_args.ext, tg_genres, f)
              events == <<[ev |-> "set_genre_tag", by |-> tg_op, genres |-> tg_genres,
                           returned |-> r.returned, raised |-> r.raised]>> \o r.events
          IN  /\ tg_events' = tg_events \o events
              /\ tg_file' = file_after(tg_file, r.events)
              /\ tg_result' = r.returned
    /\ tg_pc' = "done"
    /\ UNCHANGED <<tg_op, tg_args, tg_suggested, tg_genres>>
    /\ UNCHANGED programVars
    /\ FunctionsUnchangedBut("tagging")

NextTagging ==
    \/ process_music_file_suggest
    \/ process_music_file_input
    \/ process_music_file_auto
    \/ set_genre_tag_call

SpecTagging == InitTagging /\ [][NextTagging]_vars

\* the events of a kind, and those made by set_genre_tag
EventsOf(kind) == {i \in 1..Len(tg_events) : tg_events[i].ev = kind}
OpensBySetGenreTag ==
    {i \in EventsOf("open") : tg_events[i].by = "set_genre_tag"}

\* the extensions the tagging engine supports
SupportedExtensions ==
    {".mp3", ".m4a", ".flac", ".ogg", ".opus", ".oga", ".spx", ".wav",
     ".aiff", ".aif", ".asf", ".wma", ".wmv", ".ape", ".wv"}

\* C17: a call of set_genre_tag on a path with an unsupported extension
\* returns False, opens the file through no handler and writes nothing.
C17_UnsupportedRejected ==
    (tg_pc = "done" /\ lower_ext(tg_args.ext) \notin SupportedExtensions) =>
        /\ \A i \in EventsOf("set_genre_tag") : ~tg_events[i].returned
        /\ OpensBySetGenreTag = {}
        /\ EventsOf("save") = {}
        /\ tg_file = OriginalGenre
        /\ ~tg_result

\* set_genre_tag was called with a list for a .txt path and returned False
C17_Witness ==
    /\ tg_pc = "done"
    /\ tg_op = "set_genre_tag"
    /\ tg_args.ext = ".txt"
    /\ tg_args.genres = GenresList(<< <<"rock">>, <<"pop">> >>)
    /\ Len(tg_events) = 1
    /\ tg_events[1].ev = "set_genre_tag"
    /\ ~tg_result

\* the operator typed skip, in any case and with spaces around it
TypedSkip(i) ==
    /\ tg_events[i].ev = "input"
    /\ strip(tg_events[i].text) \in {<<"skip">>, <<"SKIP">>}

ParentLevel(level) ==
    CHOOSE l \in Levels :
        \E p \in 0..(MenuLen(l) - 1) : ItemAt(l, p).children = level

\* C20 as stated: Backspace moves from a non-root level to its parent
\* level, except from the Processing Engine level, where it moves to the
\* root level.
C20_BackToParentButEngineToRoot ==
    [][ (handle_back /\ current_menu # "root") =>
            current_menu' = IF current_menu = "engine" THEN "root"
                            ELSE ParentLevel(current_menu)
      ]_vars

\* C20, amended: Backspace moves from every non-root level to its parent
\* level, the Processing Engine level included, which moves to the Settings
\* level with the highlight kept; the special case is that of the Settings
\* level, which moves to the root level with the highlight on index 1.
C20_BackToParent ==
    [][ (handle_back /\ current_menu # "root") =>
            /\ current_menu' = ParentLevel(current_menu)
            /\ current_menu = "engine" =>
                  current_menu' = "settings" /\ selected_index' = selected_index
            /\ current_menu = "settings" =>
                  current_menu' = "root" /\ selected_index' = 1
      ]_vars

\* the Processing Engine level awaits a key with LastFM Grabber under the
\* highlight, and Backspace leads from it to the Settings level
C20_Witness ==
    /\ AtInput
    /\ current_menu = "engine"
    /\ selected_index = 1
    /\ ENABLED handle_back
    /\ BackTarget(current_menu, selected_index) = <<"settings", 1>>

(***************************************************************************)
(* One Left or Right key on a VALUE item, for every value the setting can  *)
(* hold: the settings objects take whatever number the environment file    *)
(* gives them.  Weights are in tenths.                                     *)
(***************************************************************************)
MaxExcess == 12

\* the VALUE items, by level and index
ValueItems ==
    {it \in [level : {"musicnn", "lastfm"}, index : 0..3] :
        /\ it.index < MenuLen(it.level)
        /\ ItemAt(it.level, it.index).type = "VALUE"}

\* float() and int() of the text found in the environment file
LoadedValues == (0 - MaxExcess)..(10 + MaxExcess)

InitAdjust ==
    /\ ProgramIdle
    /\ FunctionsIdleBut("adjust")
    /\ va_pc = "key"
    /\ va_item \in ValueItems
    /\ va_value \in LoadedValues
    /\ va_new = va_value

\* item.value() of Models Count reads an attribute the settings object
\* does not have
adjust_raises ==
    ValueRaises(va_item.level, ItemAt(va_item.level, va_item.index))

\* _handle_value_change_increase on the item
adjust_increase ==
    /\ va_pc = "key"
    /\ IF adjust_raises
       THEN va_pc' = "raised" /\ UNCHANGED va_new
       ELSE /\ va_pc' = "done"
            /\ \E shift \in BOOLEAN :
                  va_new' = IncreasedValue(ItemAt(va_item.level, va_item.index), va_value, shift)
    /\ UNCHANGED <<va_item, va_value>>
    /\ UNCHANGED programVars
    /\ FunctionsUnchangedBut("adjust")

\* _handle_value_change_decrease on the item
adjust_decrease ==
    /\ va_pc = "key"
    /\ IF adjust_raises
       THEN va_pc' = "raised" /\ UNCHANGED va_new
       ELSE /\ va_pc' = "done"
            /\ \E shift \in BOOLEAN :
                  va_new' = DecreasedValue(ItemAt(va_item.level, va_item.index), va_value, shift)
    /\ UNCHANGED <<va_item, va_value>>
    /\ UNCHANGED programVars
    /\ FunctionsUnchangedBut("adjust")

NextAdjust ==
    \/ adjust_increase
    \/ adjust_decrease

SpecAdjust == InitAdjust /\ [][NextAdjust]_vars

\* C21: after a Left or Right key on a VALUE item the setting lies within
\* the bounds of the item, whatever it was before.
C21_AdjustedWithinBounds ==
    va_pc = "done" =>
        LET item == ItemAt(va_item.level, va_item.index)
        IN  min_value(item) <= va_new /\ va_new <= max_value(item)

(***************************************************************************)
(* Persistence of the settings changed from the menu                       *)
(***************************************************************************)
\* the environment file holds the text v under the key k
Stored(k, v) == k \in DOMAIN env /\ env[k] = v

\* C22: whenever the menu waits for a key, the settings that toggles and
\* value adjustments change are stored in the environment file with their
\* in-memory values; the models count is never changed, the settings object
\* never gaining the attribute.
C22_MutationsPersisted ==
    AtInput =>
        /\ Stored("AUTO_APPLY_TAGS", BoolStr(auto_apply_tags))
        /\ Stored("MUSICNN_ENABLED", BoolStr(musicnn_settings.enabled))
        /\ Stored("MUSICNN_THRESHOLD_WEIGHT", str_float(musicnn_settings.threshold_weight))
        /\ Stored("MUSICNN_GENRES_COUNT", str_int(musicnn_settings.genres_count))
        /\ ~HasAttr(musicnn_settings, "model_count")
        /\ Stored("LASTFM_ENABLED", BoolStr(lastfm_settings.enabled))
        /\ Stored("LASTFM_THRESHOLD_WEIGHT", str_float(lastfm_settings.threshold_weight))

\* the remote threshold was adjusted to 0.4, a value no session starts
\* with, and the file holds it
C22_Witness ==
    /\ AtInput
    /\ lastfm_settings.threshold_weight = 4
    /\ Stored("LASTFM_THRESHOLD_WEIGHT", str_float(4))

(***************************************************************************)
(* The highlight                                                           *)
(***************************************************************************)
\* C23: in every reachable state selected_index is a valid index of
\* current_menu.
C23_SelectedIndexValid ==
    0 <= selected_index /\ selected_index < MenuLen(current_menu)

\* the highlight is on the last item of the Processing Engine level, where
\* Down from the first item and Backspace from the second item of the LastFM
\* Grabber level leave it
C23_Witness ==
    /\ current_menu = "engine"
    /\ selected_index = 1
    /\ pc = "draw"

(***************************************************************************)
(* The state a Process Directory run leaves behind                         *)
(***************************************************************************)
\* the menu loop has the control: no run is under way
InMenu == pc \in {"draw", "input"}

\* C24: when Process Directory has returned to the menu no worker process
\* is alive and both queues are empty, whatever the number of earlier runs.
C24_RunLeavesNothingBehind ==
    (InMenu /\ run > 0) =>
        /\ processes = <<>>
        /\ \A w \in Workers : wstate[w] = "exited"
        /\ input_queue = <<>>
        /\ output_queue = <<>>

\* C27: whenever the root level is displayed and the menu waits for a key
\* the highlight is not on the header placeholder.
C27_HeaderNeverHighlighted ==
    (AtInput /\ current_menu = "root") => Selected.text # HeaderText

(***************************************************************************)
(* The paths of a run between the queues and the workers                   *)
(***************************************************************************)
\* where the path p of the current run is: waiting on the input queue, held
\* by a worker, pushed on the output queue, or drained into the cache
Waiting(p) == Cardinality({i \in 1..Len(input_queue) : input_queue[i] = p})
Held(p) == Cardinality({w \in Workers : wstate[w] = "busy" /\ wpath[w] = p})
Pushed(p) ==
    Cardinality({i \in 1..Len(output_queue) :
                    output_queue[i].path = p /\ output_queue[i].run = run})
Drained(p) ==
    IF p \in DOMAIN ai_genre_suggestions_cache /\ ai_genre_suggestions_cache[p].run = run
    THEN 1 ELSE 0

\* C25: every path put on the input queue is, at any moment of any
\* interleaving, at exactly one place: still waiting, held by exactly one
\* worker, or turned into exactly one result; a path not yet put is nowhere;
\* and once the workers are joined every path has its one result.
C25_EachPathTakenOnce ==
    run > 0 =>
        \A i \in 1..Len(music_files) :
            LET p == music_files[i]
            IN  /\ Waiting(p) + Held(p) + Pushed(p) + Drained(p) = (IF i < pd_i THEN 1 ELSE 0)
                /\ pc = "ack" => Pushed(p) + Drained(p) = 1

\* two workers hold the two files of a run at the same time, the third
\* worker holds nothing
C25_Witness ==
    /\ pc = "poll"
    /\ Len(music_files) = 2
    /\ wstate[1] = "busy" /\ wpath[1] = music_files[2]
    /\ wstate[3] = "busy" /\ wpath[3] = music_files[1]
    /\ wstate[2] = "idle"
    /\ input_queue = <<>>

(***************************************************************************)
(* What the pushed pairs carry                                             *)
(***************************************************************************)
\* C26: every pushed pair comes from a call of the aggregator made with
\* the configured model count, genres count and threshold weight of the
\* settings object the workers were given, and carries the result of that
\* call when it raised nothing.
C26_PairsCarryConfiguredResult ==
    \A i \in 1..Len(output_queue) :
        /\ HasAttr(worker_settings, "model_count")
        /\ HasAttr(worker_settings, "genres_count")
        /\ HasAttr(worker_settings, "threshold_weight")
        /\ ~output_queue[i].outcome.raised =>
              output_queue[i].map = output_queue[i].outcome.map

(***************************************************************************)
(* Up and Down                                                             *)
(***************************************************************************)
\* one position further in direction d, modulo the number of items
OneStep(level, idx, d) == (idx + d) % MenuLen(level)

\* the position Up (d = -1) or Down (d = 1) is to leave the highlight on
MovedHighlight(level, idx, d) ==
    IF ItemAt(level, OneStep(level, idx, d)).text = HeaderText
    THEN OneStep(level, OneStep(level, idx, d), d)
    ELSE OneStep(level, idx, d)

\* C28: Up and Down move the highlight by one position with wraparound,
\* one position further when that lands on the header placeholder, and
\* leave it on a selectable item of the same level.
C28_UpDownSkipHeader ==
    [][ /\ handle_input_up =>
              /\ selected_index' = MovedHighlight(current_menu, selected_index, -1)
              /\ ItemAt(current_menu', selected_index').text # HeaderText
              /\ current_menu' = current_menu
        /\ handle_input_down =>
              /\ selected_index' = MovedHighlight(current_menu, selected_index, 1)
              /\ ItemAt(current_menu', selected_index').text # HeaderText
              /\ current_menu' = current_menu
      ]_vars

\* the root level awaits a key with the first selectable item highlighted:
\* Up wraps over the header to Exit
C28_Witness ==
    /\ AtInput
    /\ current_menu = "root"
    /\ selected_index = 1
    /\ ENABLED handle_input_up
    /\ StepIndex(current_menu, selected_index, -1) = 4

(***************************************************************************)
(* The ranking of get_lastfm_tags                                          *)
(***************************************************************************)
\* the tags the service gave for the call: those of the track, or those of
\* the artist when the track has none
GivenTags ==
    IF lf_track_response.kind = "toptags" /\ lf_track_response.tag # <<>>
    THEN lf_track_response.tag
    ELSE IF lf_artist_response.kind = "toptags" THEN lf_artist_response.tag
    ELSE <<>>

\* the sum of the counts that are present
GivenWeight(tags, n) ==
    LET counted == {i \in 1..n : tags[i].count # NoCount}
        sum[k \in 0..n] == IF k = 0 THEN 0
                           ELSE sum[k - 1] + (IF k \in counted THEN tags[k].count ELSE 0)
    IN  sum[n]

\* C29: when the candidate weights sum to more than zero, every returned
\* pair has a present weight of at least min_weight, the pairs are in
\* descending order of weight, pairs of equal weight in the order the
\* service gave them, and at most top_n pairs are returned.
C29_RankedFilteredTopN ==
    (lf_pc = "done" /\ GivenWeight(GivenTags, Len(GivenTags)) > 0) =>
        /\ Len(lf_result) <= lf_args.top_n
        /\ \A i \in 1..Len(lf_result) :
              lf_result[i][2] # NoCount /\ lf_result[i][2] >= lf_args.min_weight
        /\ \A i, j \in 1..Len(lf_result) : i < j => lf_result[i][2] >= lf_result[j][2]
        /\ \E f \in [1..Len(lf_result) -> 1..Len(GivenTags)] :
              /\ \A i \in 1..Len(lf_result) :
                    lf_result[i] = <<GivenTags[f[i]].name, GivenTags[f[i]].count>>
              /\ \A i, j \in 1..Len(lf_result) :
                    (i < j /\ lf_result[i][2] = lf_result[j][2]) => f[i] < f[j]

\* two tags of equal weight pass the filter and come back in the order of
\* the response
C29_Witness ==
    /\ lf_pc = "done"
    /\ lf_args.min_weight = 60
    /\ lf_args.top_n = 2
    /\ lf_track_response.kind = "toptags"
    /\ lf_track_response.tag = <<[name |-> "pop", count |-> 80], [name |-> "rock", count |-> 80]>>
    /\ lf_result = << <<"pop", 80>>, <<"rock", 80>> >>

(***************************************************************************)
(* The completion order of the model tasks                                 *)
(***************************************************************************)
\* C30: for fixed outputs of the models, get_musicnn_tags returns the same
\* tag-to-likelihood map in whatever order the model tasks complete.
C30_CompletionOrderIrrelevant ==
    (mn_pc = "done" /\ mn_op = "get_musicnn_tags") =>
        \A order \in CompletionOrders(Len(mn_args.outputs)) :
            AsMapping(get_musicnn_tags(mn_args.ai_model_count, mn_args.ai_genres_count,
                                       mn_args.max_genres_return_count, mn_args.min_weight,
                                       mn_args.outputs, order))
                = AsMapping(mn_out)

(***************************************************************************)
(* Exceptions in set_genre_tag                                             *)
(***************************************************************************)
\* an exception after which the try block goes on: the MutagenError of the
\* first open of an .mp3 file when the second open succeeds, and the
\* missing ID3 header of a .wav file
Recovered(i) ==
    \/ tg_events[i].exception = "ID3NoHeaderError"
    \/ /\ tg_events[i].at = "open"
       /\ tg_events[i].exception = "MutagenError"
       /\ i + 2 <= Len(tg_events) => tg_events[i + 2].ev # "raise"
       /\ i + 1 <= Len(tg_events)
       /\ tg_events[i + 1].ev = "open"

\* C31: no exception leaves set_genre_tag, and a genres argument of another
\* type, a failed open and an exception while assigning or saving each make
\* it return False.
C31_SetGenreTagNeverRaises ==
    \A c \in EventsOf("set_genre_tag") :
        /\ tg_events[c].raised = "none"
        /\ tg_events[c].genres.type = "other" => ~tg_events[c].returned
        /\ (\E i \in EventsOf("raise") : ~Recovered(i)) => ~tg_events[c].returned
        /\ tg_events[c].returned = tg_result

\* the save of a .flac file raised and the call returned False
C31_Witness ==
    /\ tg_pc = "done"
    /\ tg_op = "set_genre_tag"
    /\ tg_args.ext = ".flac"
    /\ \E i \in EventsOf("raise") : tg_events[i].at = "save"
    /\ tg_events[1].raised = "none"
    /\ ~tg_result
    /\ tg_file = OriginalGenre

(***************************************************************************)
(* Failed requests                                                         *)
(***************************************************************************)
\* the request failed in transport or brought a payload that does not fit
\* the response model
FailedRequest(resp) == resp.kind \in TransportFailures \cup {"malformed"}

\* C32: when the track-level and the artist-level requests both fail in
\* transport or bring a malformed payload, get_lastfm_tags returns the empty
\* list and raises nothing.
C32_FailedRequestsGiveEmptyList ==
    (lf_pc = "done" /\ FailedRequest(lf_track_response) /\ FailedRequest(lf_artist_response)) =>
        lf_result = <<>> /\ ~lf_raised

\* the track-level request timed out and the artist-level one brought
\* invalid JSON
C32_Witness ==
    /\ lf_pc = "done"
    /\ lf_track_response.kind = "Timeout"
    /\ lf_artist_response.kind = "ValueError"
    /\ lf_requests = <<"track.getTopTags", "artist.getTopTags">>
    /\ lf_result = <<>>
    /\ ~lf_raised

(***************************************************************************)
(* Invalid default directory                                               *)
(***************************************************************************)
\* the step of Process Directory that starts a run with the persisted
\* directory
StartsRun ==
    /\ run' = run + 1
    /\ default_music_dir' = default_music_dir

\* the step of Process Directory that gives up on the persisted directory:
\* the setting is absent, the file holds the empty string for it and the
\* saved auto-apply flag, the menu is drawn again, and no worker, queue,
\* file list, count, cache or finalised file has changed
ResetsAndReturns ==
    /\ default_music_dir' = NoDir
    /\ "DEFAULT_MUSIC_DIR" \in DOMAIN env' /\ env'["DEFAULT_MUSIC_DIR"] = ""
    /\ "AUTO_APPLY_TAGS" \in DOMAIN env' /\ env'["AUTO_APPLY_TAGS"] = BoolStr(auto_apply_tags)
    /\ pc' = "draw"
    /\ running' = running
    /\ UNCHANGED <<workerVars, queueVars, runVars>>

\* C33: a Process Directory step taken with a persisted default directory
\* either starts the run with that directory or, the directory not
\* existing, sets default_music_dir to absent, saves the Application
\* Settings and returns to the menu with no worker started, no path
\* enqueued and no file finalised.
C33_InvalidDirectoryResetsAndReturns ==
    [][(process_music_directory_begin /\ default_music_dir # NoDir) =>
          (StartsRun \/ ResetsAndReturns)]_vars

\* a run had used the persisted directory; the directory then was found
\* missing: the setting is absent, the file holds the empty string, and the
\* menu is drawn with all workers of the earlier run gone
C33_Witness ==
    /\ run >= 1
    /\ pc = "draw"
    /\ default_music_dir = NoDir
    /\ Stored("DEFAULT_MUSIC_DIR", "")
    /\ processes = <<>>

(***************************************************************************)
(* The combined suggestion list                                            *)
(***************************************************************************)
Elements(l) == {l[i] : i \in 1..Len(l)}

\* the position of the first occurrence of tag in list l
FirstOccurrence(l, tag) == CHOOSE i \in 1..Len(l) : l[i] = tag /\ \A j \in 1..(i - 1) : l[j] # tag

\* C34: the combined suggestion list of process_music_file holds exactly
\* the tags of the AI list and of the remote list, holds none twice, orders
\* them by their first occurrence in the concatenation of the AI list and
\* the remote list, and so begins with the AI list, the remote-only tags
\* following.
C34_CombinedListIsOrderedUnion ==
    (tg_op = "process_music_file" /\ tg_pc # "call") =>
        LET ai == tg_suggested.ai
            lastfm == tg_suggested.lastfm
            unique == tg_suggested.unique
            all == ai \o lastfm
        IN  /\ Elements(unique) = Elements(ai) \cup Elements(lastfm)
            /\ \A i, j \in 1..Len(unique) : unique[i] = unique[j] => i = j
            /\ \A i, j \in 1..Len(unique) :
                  i < j => FirstOccurrence(all, unique[i]) < FirstOccurrence(all, unique[j])
            /\ SubSeq(unique, 1, Len(ai)) = ai
            /\ \A i \in (Len(ai) + 1)..Len(unique) :
                  unique[i] \in Elements(lastfm) \ Elements(ai)

\* the remote list repeats the AI tag before a new one: the tag is kept
\* once, at the front
C34_Witness ==
    /\ tg_op = "process_music_file"
    /\ tg_pc # "call"
    /\ tg_suggested.ai = << <<"pop">> >>
    /\ tg_suggested.lastfm = << <<"rock">>, <<"pop">> >>
    /\ tg_suggested.unique = << <<"pop">>, <<"rock">> >>

(***************************************************************************)
(* The order of the query parameters                                       *)
(***************************************************************************)
\* the four parameters every request carries
FixedQuery ==
    <<"method", "=", url_method, "&", "api_key", "=", "key", "&",
      "format", "=", "json", "&", "autocorrect", "=", "1">>

\* the i-th parameter of the caller, joined to what precedes it
CallerQuery(i) ==
    IF i \in 1..Len(url_params)
    THEN <<"&", url_params[i].k, "=">> \o encoded_value(url_params[i].v)
    ELSE <<>>

\* C35: the URL is the base URL, "?", then method, api_key, format=json and
\* autocorrect=1 in this order, then the caller's parameters in their given
\* order, all joined with "&"; the string is a function of the method and
\* the parameter mapping.
C35_QueryParametersInOrder ==
    url_pc = "done" =>
        /\ Len(url_params) <= 2
        /\ url_out = <<lastfm_api_base_url, "?">> \o FixedQuery \o CallerQuery(1) \o CallerQuery(2)

\* a track request: artist before track, both behind the four fixed
\* parameters, the blank of the track name encoded
C35_Witness ==
    /\ url_pc = "done"
    /\ url_method = "track.getTopTags"
    /\ url_params[1] = [k |-> "artist", v |-> [isstr |-> TRUE, text |-> <<"A">>]]
    /\ url_params[2] = [k |-> "track", v |-> [isstr |-> TRUE, text |-> <<"A", " ">>]]
    /\ url_out = <<lastfm_api_base_url, "?", "method", "=", "track.getTopTags", "&",
                   "api_key", "=", "key", "&", "format", "=", "json", "&",
                   "autocorrect", "=", "1", "&",
                   "artist", "=", "A", "&",
                   "track", "=", "A", "%", "2", "0">>

(***************************************************************************)
(* music_tagger.py: find_music_files.  A file name is the sequence of its  *)
(* pieces: a piece is a run of characters without a dot, a lone dot, or a  *)
(* dot with the letters that follow it.  The directory part of a path      *)
(* holds no piece of the name and is left out.                             *)
(***************************************************************************)
MaxNameTokens == 2

NameTokens == {"a", ".", ".wav", ".WAV", ".txt"}
FileNames == SeqsUpTo(NameTokens, MaxNameTokens) \ {<<>>}
Song == <<"a", ".wav">>

\* what os.walk yields: one file, alone, before or behind a plain song
Listings == UNION {{<<n>>, <<n, Song>>, <<Song, n>>} : n \in FileNames}

BeginsWithDot(piece) == piece \in {".", ".wav", ".WAV", ".txt"}

\* line 380: file.lower()
file_lower(name) == [i \in 1..Len(name) |-> lower_ext(name[i])]

\* line 380: str.endswith(ext), ext a key of SUPPORTED_FORMATS
endswith(name, ext) == name # <<>> /\ name[Len(name)] = ext

\* line 380: any(file.lower().endswith(ext) for ext in extensions)
any_endswith(name) == \E ext \in DOMAIN SUPPORTED_FORMATS : endswith(file_lower(name), ext)

\* the piece that holds the last dot of the name, 0 when there is no dot
LastDot(name) ==
    IF \E i \in 1..Len(name) : BeginsWithDot(name[i])
    THEN CHOOSE i \in 1..Len(name) :
            BeginsWithDot(name[i]) /\ \A j \in (i + 1)..Len(name) : ~BeginsWithDot(name[j])
    ELSE 0

\* os.path.splitext(file_path)[1]: the text from the last dot on, empty
\* when the name has no dot or nothing but dots before its last dot
splitext_ext(name) ==
    LET k == LastDot(name)
    IN  IF k = 0 \/ \A j \in 1..(k - 1) : name[j] = "."
        THEN <<>>
        ELSE SubSeq(name, k, Len(name))

\* lines 130-131 and 231-233: ext = splitext(file_path)[1].lower() is a
\* key of SUPPORTED_FORMATS
ext_supported(name) ==
    LET ext == file_lower(splitext_ext(name))
    IN  Len(ext) = 1 /\ ext[1] \in DOMAIN SUPPORTED_FORMATS

InitFind ==
    /\ ProgramIdle
    /\ FunctionsIdleBut("find")
    /\ fm_pc = "walk"
    /\ fm_files \in Listings
    /\ fm_i = 1
    /\ fm_out = <<>>

\* lines 379-382: one file of the walk
find_music_files_visit ==
    /\ fm_pc = "walk"
    /\ fm_i <= Len(fm_files)
    /\ fm_out' = IF any_endswith(fm_files[fm_i]) THEN Append(fm_out, fm_files[fm_i]) ELSE fm_out
    /\ fm_i' = fm_i + 1
    /\ UNCHANGED <<fm_pc, fm_files>>
    /\ UNCHANGED programVars
    /\ FunctionsUnchangedBut("find")

\* line 383
find_music_files_return ==
    /\ fm_pc = "walk"
    /\ fm_i > Len(fm_files)
    /\ fm_pc' = "done"
    /\ UNCHANGED <<fm_files, fm_i, fm_out>>
    /\ UNCHANGED programVars
    /\ FunctionsUnchangedBut("find")

NextFind == find_music_files_visit \/ find_music_files_return

SpecFind == InitFind /\ [][NextFind]_vars

\* C36: every path find_music_files returns has an extension that
\* set_genre_tag and _extract_metadata_from_file take as supported.
C36_DiscoveredAreSupported ==
    fm_pc = "done" => \A i \in 1..Len(fm_out) : ext_supported(fm_out[i])

(***************************************************************************)
(* Genres typed by the operator                                            *)
(***************************************************************************)
\* the genre strings of a genres argument
GenreStrings(genres) ==
    IF genres.type = "str" THEN {genres.value}
    ELSE IF genres.type = "list" THEN {genres.value[i] : i \in 1..Len(genres.value)}
    ELSE {}

\* C37: in interactive mode no genre string that process_music_file hands
\* to set_genre_tag is empty, and no empty genre is written to the file.
C37_NoEmptyGenreWritten ==
    (tg_op = "process_music_file" /\ ~tg_args.auto_apply_tags) =>
        /\ \A i \in EventsOf("set_genre_tag") : <<>> \notin GenreStrings(tg_events[i].genres)
        /\ \A i \in 1..Len(tg_file) : tg_file[i] # <<>>
====
